---- MODULE Spec2Model ----
(***************************************************************************)
(* Signal / position engine of the SportsEdge market monitor               *)
(* (src/runner.py, src/signals.py).                                        *)
(*                                                                         *)
(* Number representation.  The program works on Python floats.  Prices,    *)
(* cent amounts, spreads and confidence scores are held here as integers   *)
(* scaled by Units (1000 units = 1.0), so 0.50 is 500, 6 cents is 6000 and *)
(* a Kalshi quote of 52 (whole cents, as the venue sends it) is 52000.     *)
(* Arithmetic is exact: binary rounding of the floats is not modelled.     *)
(* Liquidity, volume and timestamps (whole seconds) are plain integers.    *)
(* An Optional value is a sequence: << >> is None and <<v>> is the value.  *)
(***************************************************************************)
EXTENDS Integers, Sequences, FiniteSets, TLC

Units == 1000

None == << >>

Abs(x) == IF x < 0 THEN -x ELSE x

Get(d, k, default) == IF k \in DOMAIN d THEN d[k] ELSE default

(***************************************************************************)
(* Configuration (module level of runner.py; every value is an environment *)
(* setting, the deployment modelled sets CBB_MIN_SNAPS=3,                  *)
(* KALSHI_MIN_SNAPS=2, KALSHI_MAX_MARKETS=2 and SCAN_SEC=600 and keeps the *)
(* other defaults; with the default LIVE_LATE_GAME_ONLY=0 late_game_ok is  *)
(* always true).                                                           *)
(***************************************************************************)
ENABLE_PREGAME_ALERTS == TRUE

ENABLE_LIVE_ALERTS == TRUE

SCAN_SEC == 600

KALSHI_SCAN_SEC == 120

KALSHI_MAX_MARKETS == 2

KALSHI_MIN_SNAPS == 2

KALSHI_MIN_MOVE_CENTS == 2

KALSHI_MIN_VOLUME == 5000

KALSHI_COOLDOWN_SEC == 1800

LEAGUE_CFG ==
  [CBB |-> [min_snaps |-> 3,
            min_move |-> 50,
            live_cooldown |-> 600,
            pregame_cooldown |-> 900,
            min_liquidity |-> 2500,
            max_spread_cents |-> 5000,
            pregame_big_move |-> 60,
            opening_scout_minutes |-> 90],
   NBA |-> [min_snaps |-> 12,
            min_move |-> 50,
            live_cooldown |-> 480,
            pregame_cooldown |-> 900,
            min_liquidity |-> 4000,
            max_spread_cents |-> 5000,
            pregame_big_move |-> 60,
            opening_scout_minutes |-> 90]]

MIN_PRICE == 50

MAX_PRICE == 950

TP1_CENTS == 3

TP2_CENTS == 6

SL_CENTS == 2

TRAIL_START_CENTS == 4

TRAIL_GAP_CENTS == 2

TIME_STOP_MIN == 20

HISTORY_CAP == 320

ALERTS_MAX == 2500

ALERTS_KEEP == 2000

\* the clock reading when the process starts (any value past the longest
\* cooldown: the epoch clock is far beyond it)
StartTs == 6000

(***************************************************************************)
(* Bounds of the exploration.                                              *)
(***************************************************************************)
MaxCycles == 4

MaxPushes == 5

(***************************************************************************)
(* State.                                                                  *)
(***************************************************************************)
VARIABLES
  now,                 \* now_ts(): the wall clock, whole seconds
  enabled,             \* ENABLE_POLY_SPORTS / ENABLE_KALSHI of this deployment
  pc,                  \* position of the main loop inside one cycle
  history,             \* STATE["history"]: key -> sequence of [t, p]
  cooldowns,           \* STATE["cooldowns"]: cooldown key -> timestamp
  positions,           \* STATE["positions"]: key -> [entry, opened, peak]
  first_seen,          \* STATE["first_seen"]: key -> [ts, p]
  alerts_log,          \* STATE["alerts_log"]
  kalshi_last_scan_ts, \* STATE["kalshi_last_scan_ts"]
  kalshi_snapshot,     \* STATE["kalshi_snapshot"]: ticker -> latest yes price
  last_sent,           \* signals._last_sent: key -> timestamp
  tick,                \* observation: what the latest tick did
  alert_ts,            \* observation: cooldown key -> times of its alerts
  call,                \* observation: the latest direct call and its result
  pushed,              \* observation: every observation pushed, in order
  feed,                \* the price pattern replayed by the history exploration
  WS_STATE,            \* WS_STATE: slug -> the latest listener message of the slug
  WS_LAST_TS,          \* WS_LAST_TS: time of the latest stored listener message
  visited,             \* observation: the keys this cycle has worked on so far
  ws_iter,             \* the iterator of merge_ws_slugs over the keys of WS_STATE
  written,             \* observation: every object the listener has stored
  files,               \* the file system: path -> the text of the file
  saves,               \* observation: the text every save_state call set out to write
  last_recap_day,      \* STATE["last_recap_day"]
  recaps,              \* observation: the local time of every recap sent
  kscan                \* the Kalshi scan in progress: its loop position and markets_seen

vars == <<now, enabled, pc, history, cooldowns, positions, first_seen, alerts_log,
          kalshi_last_scan_ts, kalshi_snapshot, last_sent, tick, alert_ts, call, pushed,
          feed, WS_STATE, WS_LAST_TS, ws_iter, written, visited,
          files, saves, last_recap_day, recaps, kscan>>

(***************************************************************************)
(* Utils                                                                   *)
(***************************************************************************)
Lower(s) ==
  CASE s = "POLY" -> "poly"
    [] s = "KALSHI" -> "kalshi"
    [] s = "CBB" -> "cbb"
    [] s = "POLITICS" -> "politics"
    [] s = "Duke" -> "duke"
    [] s = "NBA" -> "nba"
    [] s = "NFL" -> "nfl"
    [] s = "Lakers" -> "lakers"
    [] s = "UNC" -> "unc"
    [] s = "SEN-1" -> "sen-1"
    [] s = "SEN-2" -> "sen-2"
    [] s = "GOV-1" -> "gov-1"
    [] s = "YES" -> "yes"
    [] OTHER -> s

hist_key(source, league, ident, outcome) ==
  Lower(source) \o "|" \o Lower(league) \o "|" \o Lower(ident) \o "|" \o Lower(outcome)

cents_diff(now_p, old_p) == (now_p - old_p) * 100

in_guardrails(p) == MIN_PRICE <= p /\ p <= MAX_PRICE

(***************************************************************************)
(* Shared history + cooldown                                               *)
(***************************************************************************)
\* variant: the oldest entries are kept instead of the newest
Trim_head(h) == IF Len(h) > HISTORY_CAP THEN SubSeq(h, 1, HISTORY_CAP) ELSE h

Trim(h) == IF Len(h) > HISTORY_CAP THEN SubSeq(h, Len(h) - HISTORY_CAP + 1, Len(h)) ELSE h

push_history(hist, key, price, t) ==
  LET h == Get(hist, key, << >>) \o << [t |-> t, p |-> price] >>
  IN  [k \in DOMAIN hist \cup {key} |-> IF k = key THEN Trim(h) ELSE hist[k]]

hist_len(hist, key) == Len(Get(hist, key, << >>))

prev_price(hist, key) ==
  LET h == Get(hist, key, << >>)
  IN  IF Len(h) < 2 THEN None ELSE << h[Len(h) - 1].p >>

\* variant: the window always starts at the oldest observation held
price_over_snaps_oldest(hist, key, snaps) ==
  LET h == Get(hist, key, << >>)
  IN  IF Len(h) < snaps THEN None ELSE << h[1].p, h[Len(h)].p >>

price_over_snaps(hist, key, snaps) ==
  LET h == Get(hist, key, << >>)
  IN  IF Len(h) < snaps THEN None ELSE << h[Len(h) - snaps + 1].p, h[Len(h)].p >>

\* variant: the window is whatever the history holds once there are two
\* observations
warm_window_short(hist, key, snaps) ==
  IF prev_price(hist, key) = None
  THEN None
  ELSE << hist[key][1].p, hist[key][Len(hist[key])].p >>

\* the warm-up checks of a tick, after the push: None while the tick must skip
\* signal evaluation, else the pair (price snaps observations ago, price now)
warm_window(hist, key, snaps) ==
  IF \/ prev_price(hist, key) = None
     \/ hist_len(hist, key) < snaps
     \/ price_over_snaps(hist, key, snaps) = None
  THEN None
  ELSE price_over_snaps(hist, key, snaps)

\* variant: the gate answers but the record is never written
cooldown_ok_norecord(cds, cool_key, cooldown_sec, t) ==
  [ok |-> (t - Get(cds, cool_key, 0) >= cooldown_sec), cooldowns |-> cds]

\* variant: a rejected attempt also restarts the window
cooldown_ok_touch(cds, cool_key, cooldown_sec, t) ==
  [ok |-> (t - Get(cds, cool_key, 0) >= cooldown_sec),
   cooldowns |-> [k \in DOMAIN cds \cup {cool_key} |-> IF k = cool_key THEN t ELSE cds[k]]]

\* variant: one budget for every record, whatever its class
cooldown_ok_budget(cds, cool_key, cooldown_sec, t) ==
  IF \E k \in DOMAIN cds : t - cds[k] < cooldown_sec
  THEN [ok |-> FALSE, cooldowns |-> cds]
  ELSE [ok |-> TRUE,
        cooldowns |-> [k \in DOMAIN cds \cup {cool_key} |->
                         IF k = cool_key THEN t ELSE cds[k]]]

cooldown_ok(cds, cool_key, cooldown_sec, t) ==
  LET last == Get(cds, cool_key, 0)
  IN  IF t - last < cooldown_sec
      THEN [ok |-> FALSE, cooldowns |-> cds]
      ELSE [ok |-> TRUE,
            cooldowns |-> [k \in DOMAIN cds \cup {cool_key} |->
                             IF k = cool_key THEN t ELSE cds[k]]]

(***************************************************************************)
(* Positions + exits                                                       *)
(***************************************************************************)
\* variant: re-entry overwrites the open position
pos_open_overwrite(pos, key, entry_price, t) ==
  [k \in DOMAIN pos \cup {key} |->
     IF k = key THEN [entry |-> entry_price, opened |-> t, peak |-> entry_price]
     ELSE pos[k]]

pos_open(pos, key, entry_price, t) ==
  IF key \in DOMAIN pos
  THEN pos
  ELSE [k \in DOMAIN pos \cup {key} |->
          IF k = key THEN [entry |-> entry_price, opened |-> t, peak |-> entry_price]
          ELSE pos[k]]

\* variant: the peak follows the price instead of its maximum
pos_update_peak_assign(pos, key, price_now) ==
  IF key \notin DOMAIN pos THEN pos ELSE [pos EXCEPT ![key].peak = price_now]

pos_update_peak(pos, key, price_now) ==
  IF key \notin DOMAIN pos
  THEN pos
  ELSE IF price_now > pos[key].peak
       THEN [pos EXCEPT ![key].peak = price_now]
       ELSE pos

pos_close(pos, key) == [k \in DOMAIN pos \ {key} |-> pos[k]]

\* variant: TP1 tested before TP2
exit_signal_tp1first(pos, key, price_now, t) ==
  IF key \notin DOMAIN pos
  THEN None
  ELSE
    LET entry == pos[key].entry
        opened == pos[key].opened
        peak == pos[key].peak
        pnl_c == cents_diff(price_now, entry)
        gain_from_entry_c == cents_diff(peak, entry)
        trail_floor == peak - (TRAIL_GAP_CENTS * Units) \div 100
    IN  IF pnl_c >= TP1_CENTS * Units THEN << "TP1", "TP1 hit" >>
        ELSE IF pnl_c >= TP2_CENTS * Units THEN << "TP2", "TP2 hit" >>
        ELSE IF pnl_c <= -(SL_CENTS * Units) THEN << "SL", "Stop hit" >>
        ELSE IF gain_from_entry_c >= TRAIL_START_CENTS * Units /\ price_now <= trail_floor
             THEN << "TRAIL", "Trailing stop hit" >>
        ELSE IF (t - opened) >= TIME_STOP_MIN * 60 /\ 2 * pnl_c < TP1_CENTS * Units
             THEN << "TIME", "Time stop" >>
        ELSE None

\* variant: the trailing stop is armed from the start
exit_signal_nostart(pos, key, price_now, t) ==
  IF key \notin DOMAIN pos
  THEN None
  ELSE
    LET entry == pos[key].entry
        opened == pos[key].opened
        peak == pos[key].peak
        pnl_c == cents_diff(price_now, entry)
        trail_floor == peak - (TRAIL_GAP_CENTS * Units) \div 100
    IN  IF pnl_c >= TP2_CENTS * Units THEN << "TP2", "TP2 hit" >>
        ELSE IF pnl_c >= TP1_CENTS * Units THEN << "TP1", "TP1 hit" >>
        ELSE IF pnl_c <= -(SL_CENTS * Units) THEN << "SL", "Stop hit" >>
        ELSE IF price_now <= trail_floor
             THEN << "TRAIL", "Trailing stop hit" >>
        ELSE IF (t - opened) >= TIME_STOP_MIN * 60 /\ 2 * pnl_c < TP1_CENTS * Units
             THEN << "TIME", "Time stop" >>
        ELSE None

\* variant: the time stop waits for the minute after TIME_STOP_MIN
exit_signal_latetime(pos, key, price_now, t) ==
  IF key \notin DOMAIN pos
  THEN None
  ELSE
    LET entry == pos[key].entry
        opened == pos[key].opened
        peak == pos[key].peak
        pnl_c == cents_diff(price_now, entry)
        gain_from_entry_c == cents_diff(peak, entry)
        trail_floor == peak - (TRAIL_GAP_CENTS * Units) \div 100
    IN  IF pnl_c >= TP2_CENTS * Units THEN << "TP2", "TP2 hit" >>
        ELSE IF pnl_c >= TP1_CENTS * Units THEN << "TP1", "TP1 hit" >>
        ELSE IF pnl_c <= -(SL_CENTS * Units) THEN << "SL", "Stop hit" >>
        ELSE IF gain_from_entry_c >= TRAIL_START_CENTS * Units /\ price_now <= trail_floor
             THEN << "TRAIL", "Trailing stop hit" >>
        ELSE IF (t - opened) > TIME_STOP_MIN * 60 /\ 2 * pnl_c < TP1_CENTS * Units
             THEN << "TIME", "Time stop" >>
        ELSE None

\* variant: the time stop does not wait for the age
exit_signal_noage(pos, key, price_now, t) ==
  IF key \notin DOMAIN pos
  THEN None
  ELSE
    LET entry == pos[key].entry
        opened == pos[key].opened
        peak == pos[key].peak
        pnl_c == cents_diff(price_now, entry)
        gain_from_entry_c == cents_diff(peak, entry)
        trail_floor == peak - (TRAIL_GAP_CENTS * Units) \div 100
    IN  IF pnl_c >= TP2_CENTS * Units THEN << "TP2", "TP2 hit" >>
        ELSE IF pnl_c >= TP1_CENTS * Units THEN << "TP1", "TP1 hit" >>
        ELSE IF pnl_c <= -(SL_CENTS * Units) THEN << "SL", "Stop hit" >>
        ELSE IF gain_from_entry_c >= TRAIL_START_CENTS * Units /\ price_now <= trail_floor
             THEN << "TRAIL", "Trailing stop hit" >>
        ELSE IF 2 * pnl_c < TP1_CENTS * Units
             THEN << "TIME", "Time stop" >>
        ELSE None

exit_signal(pos, key, price_now, t) ==
  IF key \notin DOMAIN pos
  THEN None
  ELSE
    LET entry == pos[key].entry
        opened == pos[key].opened
        peak == pos[key].peak
        pnl_c == cents_diff(price_now, entry)
        gain_from_entry_c == cents_diff(peak, entry)
        trail_floor == peak - (TRAIL_GAP_CENTS * Units) \div 100
    IN  IF pnl_c >= TP2_CENTS * Units THEN << "TP2", "TP2 hit" >>
        ELSE IF pnl_c >= TP1_CENTS * Units THEN << "TP1", "TP1 hit" >>
        ELSE IF pnl_c <= -(SL_CENTS * Units) THEN << "SL", "Stop hit" >>
        ELSE IF gain_from_entry_c >= TRAIL_START_CENTS * Units /\ price_now <= trail_floor
             THEN << "TRAIL", "Trailing stop hit" >>
        ELSE IF (t - opened) >= TIME_STOP_MIN * 60 /\ 2 * pnl_c < TP1_CENTS * Units
             THEN << "TIME", "Time stop" >>
        ELSE None

(***************************************************************************)
(* Alerts log                                                              *)
(***************************************************************************)
\* variant: the trim keeps the oldest entries
log_alert_head(log, t, source, league, ident, outcome, price, conf, kind, reason) ==
  LET l == log \o << [ts |-> t, source |-> source, league |-> league, ident |-> ident,
                      outcome |-> outcome, price |-> price, conf |-> conf,
                      kind |-> kind, reason |-> reason] >>
  IN  IF Len(l) > ALERTS_MAX THEN SubSeq(l, 1, ALERTS_KEEP) ELSE l

\* variant: every alert is recorded as a scout alert
log_alert_scout(log, t, source, league, ident, outcome, price, conf, kind, reason) ==
  log \o << [ts |-> t, source |-> source, league |-> league, ident |-> ident,
             outcome |-> outcome, price |-> price, conf |-> conf,
             kind |-> "SCOUT", reason |-> reason] >>

\* variant: an alert that repeats the kind and reason of the latest entry of
\* the same market is not recorded again
log_alert_dedup(log, t, source, league, ident, outcome, price, conf, kind, reason) ==
  LET e == [ts |-> t, source |-> source, league |-> league, ident |-> ident,
            outcome |-> outcome, price |-> price, conf |-> conf,
            kind |-> kind, reason |-> reason]
      l == log \o << e >>
  IN  IF /\ log # << >>
         /\ log[Len(log)].kind = kind
         /\ log[Len(log)].reason = reason
         /\ log[Len(log)].ident = ident
      THEN log
      ELSE IF Len(l) > ALERTS_MAX THEN SubSeq(l, Len(l) - ALERTS_KEEP + 1, Len(l)) ELSE l

log_alert(log, t, source, league, ident, outcome, price, conf, kind, reason) ==
  LET l == log \o << [ts |-> t, source |-> source, league |-> league, ident |-> ident,
                      outcome |-> outcome, price |-> price, conf |-> conf,
                      kind |-> kind, reason |-> reason] >>
  IN  IF Len(l) > ALERTS_MAX THEN SubSeq(l, Len(l) - ALERTS_KEEP + 1, Len(l)) ELSE l

(***************************************************************************)
(* Polymarket signals                                                      *)
(***************************************************************************)
Min(a, b) == IF a < b THEN a ELSE b

Max(a, b) == IF a > b THEN a ELSE b

\* variant: the sum is returned as it is
poly_confidence_unclamped(league, move, liquidity, spread_c, is_live) ==
  4500 + Min(3000, Abs(move) * 50)
    + (IF liquidity >= 15000 THEN 1500
       ELSE IF liquidity >= 8000 THEN 1000
       ELSE IF liquidity >= 4000 THEN 600
       ELSE IF liquidity >= 2500 THEN 300
       ELSE 0)
    + (IF spread_c = None THEN 0
       ELSE IF spread_c[1] <= 2000 THEN 800
       ELSE IF spread_c[1] <= 4000 THEN 400
       ELSE IF spread_c[1] >= 8000 THEN -800
       ELSE 0)
    + (IF is_live THEN 500 ELSE 0)
    + (IF league = "NBA" THEN 300 ELSE 0)

\* variant: a spread between the two middle tiers is penalised, a wide one not
poly_confidence_midpenalty(league, move, liquidity, spread_c, is_live) ==
  Max(1000, Min(10000,
    4500 + Min(3000, Abs(move) * 50)
      + (IF liquidity >= 15000 THEN 1500
         ELSE IF liquidity >= 8000 THEN 1000
         ELSE IF liquidity >= 4000 THEN 600
         ELSE IF liquidity >= 2500 THEN 300
         ELSE 0)
      + (IF spread_c = None THEN 0
         ELSE IF spread_c[1] <= 2000 THEN 800
         ELSE IF spread_c[1] <= 4000 THEN 400
         ELSE IF spread_c[1] >= 8000 THEN 0
         ELSE -800)
      + (IF is_live THEN 500 ELSE 0)
      + (IF league = "NBA" THEN 300 ELSE 0)))

poly_confidence(league, move, liquidity, spread_c, is_live) ==
  LET b0 == 4500 + Min(3000, Abs(move) * 50)
      b1 == b0 + (IF liquidity >= 15000 THEN 1500
                  ELSE IF liquidity >= 8000 THEN 1000
                  ELSE IF liquidity >= 4000 THEN 600
                  ELSE IF liquidity >= 2500 THEN 300
                  ELSE 0)
      b2 == IF spread_c # None
            THEN (IF spread_c[1] <= 2000 THEN b1 + 800
                  ELSE IF spread_c[1] <= 4000 THEN b1 + 400
                  ELSE IF spread_c[1] >= 8000 THEN b1 - 800
                  ELSE b1)
            ELSE b1
      b3 == IF is_live THEN b2 + 500 ELSE b2
      b4 == IF league = "NBA" THEN b3 + 300 ELSE b3
  IN  Max(1000, Min(10000, b4))

record_first_seen(fs, key, price, t) ==
  IF key \in DOMAIN fs
  THEN fs
  ELSE [k \in DOMAIN fs \cup {key} |-> IF k = key THEN [ts |-> t, p |-> price] ELSE fs[k]]

\* variant: the window never closes
in_opening_window_open(fs, key, opening_minutes, t) == TRUE

in_opening_window(fs, key, opening_minutes, t) ==
  IF key \notin DOMAIN fs
  THEN TRUE
  ELSE (t - fs[key].ts) <= opening_minutes * 60

opening_scout_signal(fs, key, price_now, thresh, opening_minutes, t) ==
  IF key \notin DOMAIN fs
  THEN None
  ELSE LET mv == price_now - fs[key].p
       IN  IF Abs(mv) >= thresh /\ in_opening_window(fs, key, opening_minutes, t)
           THEN << mv >>
           ELSE None

pregame_big_move_signal(hist, key, snaps, thresh) ==
  LET pair == price_over_snaps(hist, key, snaps)
  IN  IF pair = None
      THEN None
      ELSE LET mv == pair[2] - pair[1]
           IN  IF Abs(mv) >= thresh THEN << mv >> ELSE None

kalshi_confidence(move_snaps_c, volume) ==
  LET b0 == 4500 + Min(3000, Abs(move_snaps_c) \div 2)
      b1 == b0 + (IF volume >= 50000 THEN 1500
                  ELSE IF volume >= 20000 THEN 1000
                  ELSE IF volume >= 10000 THEN 600
                  ELSE IF volume >= 5000 THEN 300
                  ELSE 0)
  IN  Max(1000, Min(10000, b1))

(***************************************************************************)
(* The observations kept beside the program state.                         *)
(***************************************************************************)
\* tick: t is the time of the tick, observed says that the venue reported a
\* price, price is the price once it has been pushed to the history (0 before),
\* pre is the position of the key when the tick began,
\* opened is the position of the key right after pos_open (None: not called),
\* exitChecked says that the exit block ran, action is what exit_signal gave.
NoTick ==
  [t |-> 0, src |-> "none", key |-> "", observed |-> FALSE, price |-> 0,
   pre |-> None, pushed |-> FALSE, evaluated |-> FALSE,
   fired |-> {}, opened |-> None, exitChecked |-> FALSE, action |-> "none"]

\* call: a direct call of a gate, its cooldown, its result, its time t, the
\* time prev of the latest earlier success of the same (key, class) (None: no
\* such) and fresh: no earlier success under that key in any class
NoCall ==
  [fn |-> "none", key |-> "", cd |-> 0, ret |-> FALSE, t |-> 0, prev |-> None,
   fresh |-> FALSE]

Pre(pos, key) == IF key \in DOMAIN pos THEN << pos[key] >> ELSE None

Noted(ats, fired, t) ==
  [k \in DOMAIN ats \cup fired |->
     IF k \in fired THEN Get(ats, k, << >>) \o << t >> ELSE ats[k]]

NotePush(pu, key, price, t) ==
  [k \in DOMAIN pu \cup {key} |->
     IF k = key THEN Get(pu, key, << >>) \o << [t |-> t, p |-> price] >> ELSE pu[k]]

RECURSIVE SumLen(_, _)
SumLen(f, ks) ==
  IF ks = {} THEN 0
  ELSE LET k == CHOOSE x \in ks : TRUE IN Len(f[k]) + SumLen(f, ks \ {k})

Pushes == SumLen(pushed, DOMAIN pushed)

(***************************************************************************)
(* Main loop: the body run for one Polymarket outcome (one tick)           *)
(***************************************************************************)
\* variant: TP1 closes too
POLY_CLOSING_all == {"TP2", "TP1", "SL", "TRAIL", "TIME"}

\* variant: TP2 only reports
POLY_CLOSING_notp2 == {"SL", "TRAIL", "TIME"}

POLY_CLOSING == {"TP2", "SL", "TRAIL", "TIME"}

\* no-cooldown-attempt result
Pass(cds) == [ok |-> FALSE, cooldowns |-> cds]

\* the outcome filters of a tick: guardrails, liquidity, spread
poly_filtered(cfg, mid, liq, spread_c) ==
  \/ ~in_guardrails(mid)
  \/ liq < cfg.min_liquidity
  \/ (spread_c # None /\ spread_c[1] > cfg.max_spread_cents)

PolyOutcome(league, slug, team, is_live, mid, liq, spread_c) ==
  LET cfg == LEAGUE_CFG[league]
      key == hist_key("POLY", league, slug, team)
      base == [NoTick EXCEPT !.t = now, !.src = "POLY", !.key = key,
                             !.observed = TRUE, !.pre = Pre(positions, key)]
  IN
  IF poly_filtered(cfg, mid, liq, spread_c)
  THEN /\ tick' = base
       /\ UNCHANGED <<history, cooldowns, positions, first_seen, alerts_log,
                      alert_ts, pushed>>
  ELSE
    LET fs1 == record_first_seen(first_seen, key, mid, now)
        h1 == push_history(history, key, mid, now)
        pprev == prev_price(h1, key)
    IN
    /\ first_seen' = fs1
    /\ history' = h1
    /\ pushed' = NotePush(pushed, key, mid, now)
    /\ IF warm_window(h1, key, cfg.min_snaps) = None
       THEN /\ tick' = [base EXCEPT !.price = mid, !.pushed = TRUE]
            /\ UNCHANGED <<cooldowns, positions, alerts_log, alert_ts>>
       ELSE
         LET pair == warm_window(h1, key, cfg.min_snaps)
             move == pair[2] - pair[1]
             scouts == (~is_live) /\ ENABLE_PREGAME_ALERTS
             \* Pregame scout alerts
             open_mv == opening_scout_signal(fs1, key, mid, cfg.pregame_big_move,
                                             cfg.opening_scout_minutes, now)
             ck1 == key \o "|SCOUT_OPEN"
             g1 == IF scouts /\ open_mv # None
                   THEN cooldown_ok(cooldowns, ck1, cfg.pregame_cooldown, now)
                   ELSE Pass(cooldowns)
             log1 == IF g1.ok
                     THEN log_alert(alerts_log, now, "POLY", league, slug, team, mid,
                                    poly_confidence(league, open_mv[1], liq, spread_c, FALSE),
                                    "SCOUT", "opening-scout")
                     ELSE alerts_log
             big_mv == pregame_big_move_signal(h1, key, cfg.min_snaps, cfg.pregame_big_move)
             ck2 == key \o "|SCOUT_MOM"
             g2 == IF scouts /\ big_mv # None
                   THEN cooldown_ok(g1.cooldowns, ck2, cfg.pregame_cooldown, now)
                   ELSE Pass(g1.cooldowns)
             log2 == IF g2.ok
                     THEN log_alert(log1, now, "POLY", league, slug, team, mid,
                                    poly_confidence(league, big_mv[1], liq, spread_c, FALSE),
                                    "SCOUT", "pregame-momentum")
                     ELSE log1
             \* Entry displacement
             tick_move == mid - pprev[1]
             ck3 == key \o (IF is_live THEN "|LIVE" ELSE "|PREGAME")
             cd == IF is_live THEN cfg.live_cooldown ELSE cfg.pregame_cooldown
             g3 == IF Abs(tick_move) >= cfg.min_move
                   THEN cooldown_ok(g2.cooldowns, ck3, cd, now)
                   ELSE Pass(g2.cooldowns)
             log3 == IF g3.ok
                     THEN log_alert(log2, now, "POLY", league, slug, team, mid,
                                    poly_confidence(league, move, liq, spread_c, is_live),
                                    "ENTRY", "displacement")
                     ELSE log2
             pos3 == IF g3.ok THEN pos_open(positions, key, mid, now) ELSE positions
             \* Exits
             held == key \in DOMAIN pos3
             pos4 == IF held THEN pos_update_peak(pos3, key, mid) ELSE pos3
             sig == IF held THEN exit_signal(pos4, key, mid, now) ELSE None
             log4 == IF sig # None
                     THEN log_alert(log3, now, "POLY", league, slug, team, mid, 0,
                                    "UPDATE", "exit-" \o sig[1])
                     ELSE log3
             pos5 == IF sig # None /\ sig[1] \in POLY_CLOSING THEN pos_close(pos4, key) ELSE pos4
             fired == (IF g1.ok THEN {ck1} ELSE {}) \cup (IF g2.ok THEN {ck2} ELSE {})
                        \cup (IF g3.ok THEN {ck3} ELSE {})
         IN /\ cooldowns' = g3.cooldowns
            /\ alerts_log' = log4
            /\ positions' = pos5
            /\ alert_ts' = Noted(alert_ts, fired, now)
            /\ tick' = [base EXCEPT !.price = mid, !.pushed = TRUE, !.evaluated = TRUE,
                                    !.fired = fired,
                                    !.opened = IF g3.ok THEN Pre(pos3, key) ELSE None,
                                    !.exitChecked = held,
                                    !.action = IF sig = None THEN "none" ELSE sig[1]]

(***************************************************************************)
(* Main loop: the body run for one Kalshi market                           *)
(***************************************************************************)
\* variant: the time stop only reports
KALSHI_CLOSING_notime == {"TP2", "SL", "TRAIL"}

KALSHI_CLOSING == {"TP2", "SL", "TRAIL", "TIME"}

KalshiMarket(title, ticker, yes_price, volume) ==
  LET base == [NoTick EXCEPT !.t = now, !.src = "KALSHI",
                             !.key = hist_key("KALSHI", "POLITICS", ticker, "YES"),
                             !.observed = (yes_price # None),
                             !.pre = Pre(positions, hist_key("KALSHI", "POLITICS", ticker, "YES"))]
  IN
  IF yes_price = None \/ volume < KALSHI_MIN_VOLUME
  THEN /\ tick' = base
       /\ UNCHANGED <<history, cooldowns, positions, alerts_log, alert_ts, pushed,
                      kalshi_snapshot>>
  ELSE
    LET yes_c == yes_price[1]
        key == hist_key("KALSHI", "POLITICS", ticker, "YES")
        h1 == push_history(history, key, yes_c, now)
        pprev == prev_price(h1, key)
    IN
    /\ kalshi_snapshot' = [k \in DOMAIN kalshi_snapshot \cup {ticker} |->
                             IF k = ticker THEN yes_c ELSE kalshi_snapshot[k]]
    /\ history' = h1
    /\ pushed' = NotePush(pushed, key, yes_c, now)
    /\ IF warm_window(h1, key, KALSHI_MIN_SNAPS) = None
       THEN /\ tick' = [base EXCEPT !.price = yes_c, !.pushed = TRUE]
            /\ UNCHANGED <<cooldowns, positions, alerts_log, alert_ts>>
       ELSE
         LET pair == warm_window(h1, key, KALSHI_MIN_SNAPS)
             move_snaps_c == pair[2] - pair[1]
             \* Entry alert on tick move
             ck == key \o "|ALERT"
             g == IF Abs(yes_c - pprev[1]) >= KALSHI_MIN_MOVE_CENTS * Units
                  THEN cooldown_ok(cooldowns, ck, KALSHI_COOLDOWN_SEC, now)
                  ELSE Pass(cooldowns)
             log1 == IF g.ok
                     THEN log_alert(alerts_log, now, "KALSHI", "POLITICS", ticker, "YES", yes_c,
                                    kalshi_confidence(move_snaps_c, volume),
                                    "ENTRY", "displacement")
                     ELSE alerts_log
             pos1 == IF g.ok THEN pos_open(positions, key, yes_c, now) ELSE positions
             \* Exits
             held == key \in DOMAIN pos1
             pos2 == IF held THEN pos_update_peak(pos1, key, yes_c) ELSE pos1
             sig == IF held THEN exit_signal(pos2, key, yes_c, now) ELSE None
             log2 == IF sig # None
                     THEN log_alert(log1, now, "KALSHI", "POLITICS", ticker, "YES", yes_c, 0,
                                    "UPDATE", "exit-" \o sig[1])
                     ELSE log1
             pos3 == IF sig # None /\ sig[1] \in KALSHI_CLOSING THEN pos_close(pos2, key) ELSE pos2
             fired == IF g.ok THEN {ck} ELSE {}
         IN /\ cooldowns' = g.cooldowns
            /\ alerts_log' = log2
            /\ positions' = pos3
            /\ alert_ts' = Noted(alert_ts, fired, now)
            /\ tick' = [base EXCEPT !.price = yes_c, !.pushed = TRUE, !.evaluated = TRUE,
                                    !.fired = fired,
                                    !.opened = IF g.ok THEN Pre(pos1, key) ELSE None,
                                    !.exitChecked = held,
                                    !.action = IF sig = None THEN "none" ELSE sig[1]]

(***************************************************************************)
(* Inputs of the exploration: what the venues may report in a cycle.       *)
(***************************************************************************)
PolyPrices == {450, 500, 520, 550, 970}

Liquidities == {2000, 3000}

Spreads == {None, << 6000 >>}

KalshiQuotes == {None, << 50000 >>, << 52000 >>, << 53000 >>, << 98000 >>}

Volumes == {1000, 6000}

EmptyMap == [k \in {} |-> 0]

(***************************************************************************)
(* Main loop, one cycle: Polymarket scan, Kalshi scan, save and sleep.     *)
(***************************************************************************)
\* The two venues share no key, cooldown record or position; the exploration
\* takes the deployments that run one venue (the other switched off).
Deployments ==
  { [ENABLE_POLY_SPORTS |-> TRUE, ENABLE_KALSHI |-> FALSE],
    [ENABLE_POLY_SPORTS |-> FALSE, ENABLE_KALSHI |-> TRUE] }

Init ==
  /\ now = StartTs
  /\ enabled \in Deployments
  /\ pc = "poly"
  /\ history = EmptyMap
  /\ cooldowns = EmptyMap
  /\ positions = EmptyMap
  /\ first_seen = EmptyMap
  /\ alerts_log = << >>
  /\ kalshi_last_scan_ts = 0
  /\ kalshi_snapshot = EmptyMap
  /\ last_sent = EmptyMap
  /\ tick = NoTick
  /\ alert_ts = EmptyMap
  /\ call = NoCall
  /\ pushed = EmptyMap
  /\ feed = << >>
  /\ WS_STATE = EmptyMap
  /\ WS_LAST_TS = None
  /\ visited = {}
  /\ ws_iter = None
  /\ written = {}
  /\ files = EmptyMap
  /\ saves = {}
  /\ last_recap_day = None
  /\ recaps = << >>
  /\ kscan = None

PolyScan ==
  /\ pc = "poly"
  /\ enabled.ENABLE_POLY_SPORTS
  /\ pc' = "kalshi"
  /\ \E is_live \in BOOLEAN, mid \in PolyPrices, liq \in Liquidities, spread_c \in Spreads :
       IF \/ (is_live /\ ~ENABLE_LIVE_ALERTS)
          \/ (~is_live /\ ~ENABLE_PREGAME_ALERTS)
       THEN UNCHANGED <<history, cooldowns, positions, first_seen, alerts_log, tick,
                        alert_ts, pushed>>
       ELSE /\ ~poly_filtered(LEAGUE_CFG.CBB, mid, liq, spread_c) => Pushes < MaxPushes
            /\ PolyOutcome("CBB", "cbb-g1", "Duke", is_live, mid, liq, spread_c)
  /\ UNCHANGED <<now, enabled, files, saves, last_recap_day, recaps, kscan,
                 kalshi_last_scan_ts, kalshi_snapshot, last_sent, call, feed, WS_STATE,
                 WS_LAST_TS, ws_iter, written, visited>>

PolyNoMarket ==
  /\ pc = "poly"
  /\ pc' = "kalshi"
  /\ UNCHANGED <<now, enabled, files, saves, last_recap_day, recaps, kscan, history,
                 cooldowns, positions, first_seen, alerts_log, kalshi_last_scan_ts,
                 kalshi_snapshot, last_sent, tick, alert_ts, call, pushed, feed, WS_STATE,
                 WS_LAST_TS, ws_iter, written, visited>>

KalshiScan ==
  /\ pc = "kalshi"
  /\ pc' = "save"
  /\ IF enabled.ENABLE_KALSHI /\ (now - kalshi_last_scan_ts) >= KALSHI_SCAN_SEC
     THEN /\ kalshi_last_scan_ts' = now
          /\ \/ \E yes_price \in KalshiQuotes, volume \in Volumes :
                  /\ (yes_price # None /\ volume >= KALSHI_MIN_VOLUME) => Pushes < MaxPushes
                  /\ KalshiMarket("Senate race", "SEN-1", yes_price, volume)
             \/ UNCHANGED <<history, cooldowns, positions, alerts_log, tick, alert_ts,
                            pushed, kalshi_snapshot>>
     ELSE UNCHANGED <<history, cooldowns, positions, alerts_log, tick, alert_ts,
                      pushed, kalshi_snapshot, kalshi_last_scan_ts>>
  /\ UNCHANGED <<now, enabled, files, saves, last_recap_day, recaps, kscan, first_seen,
                 last_sent, call, feed, WS_STATE, WS_LAST_TS, ws_iter, written, visited>>

SaveSleep ==
  /\ pc = "save"
  /\ now + SCAN_SEC <= StartTs + MaxCycles * SCAN_SEC
  /\ pc' = "poly"
  /\ now' = now + SCAN_SEC
  /\ UNCHANGED <<enabled, files, saves, last_recap_day, recaps, kscan, history, cooldowns,
                 positions, first_seen, alerts_log, kalshi_last_scan_ts, kalshi_snapshot,
                 last_sent, tick, alert_ts, call, pushed, feed, WS_STATE, WS_LAST_TS,
                 ws_iter, written, visited>>

Next == PolyScan \/ PolyNoMarket \/ KalshiScan \/ SaveSleep

Spec == Init /\ [][Next]_vars

(***************************************************************************)
(* Properties of the scan loop (checked under Spec).                       *)
(***************************************************************************)
KPoly == hist_key("POLY", "CBB", "cbb-g1", "Duke")

KKalshi == hist_key("KALSHI", "POLITICS", "SEN-1", "YES")

\* the cooldown duration the configuration gives to a cooldown key
CooldownOf(ck) ==
  CASE ck = KPoly \o "|SCOUT_OPEN" -> LEAGUE_CFG.CBB.pregame_cooldown
    [] ck = KPoly \o "|SCOUT_MOM" -> LEAGUE_CFG.CBB.pregame_cooldown
    [] ck = KPoly \o "|PREGAME" -> LEAGUE_CFG.CBB.pregame_cooldown
    [] ck = KPoly \o "|LIVE" -> LEAGUE_CFG.CBB.live_cooldown
    [] ck = KKalshi \o "|ALERT" -> KALSHI_COOLDOWN_SEC

EntryKeys == {KPoly \o "|PREGAME", KPoly \o "|LIVE", KKalshi \o "|ALERT"}

\* C2: in every tick in which a price is observed for a key that has an open
\* position, the peak is updated and the exit is evaluated, whatever made the
\* tick skip signal evaluation (guardrails, liquidity, spread, warm-up).
C2_ExitEvaluatedEveryTick ==
  (tick.observed /\ tick.pre # None) =>
     tick.exitChecked

\* C3: any two alerts emitted under one cooldown key are at least the
\* configured cooldown duration of that key apart.
C3_AlertsSpaced ==
  \A ck \in DOMAIN alert_ts :
    \A i, j \in 1..Len(alert_ts[ck]) :
      i < j => alert_ts[ck][j] - alert_ts[ck][i] >= CooldownOf(ck)

C3_Witness ==
  \E ck \in DOMAIN alert_ts :
    /\ Len(alert_ts[ck]) >= 2
    /\ tick.fired = {ck}
    /\ tick.t = alert_ts[ck][Len(alert_ts[ck])]

\* C6: pos_open on a key that is already open changes nothing of its position
\* (entry, opened, peak); on a key without a position it creates one with
\* entry = entry_price, opened = now, peak = entry_price.
C6_PosOpen ==
  (tick.fired \cap EntryKeys # {}) =>
     /\ tick.opened # None
     /\ tick.pre # None => tick.opened = tick.pre
     /\ tick.pre = None =>
          tick.opened = << [entry |-> tick.price, opened |-> tick.t, peak |-> tick.price] >>

C6_Witness ==
  /\ tick.fired \cap EntryKeys # {}
  /\ tick.pre # None
  /\ tick.price # tick.pre[1].entry
  /\ tick.t # tick.pre[1].opened

\* C7: the peak of a position is its entry when the position is created, never
\* decreases while the position stays open, so is never below the entry; a
\* tick that keeps the position open leaves peak = max(old peak, price).
C7_PeakStep ==
  \A k \in DOMAIN positions' :
    /\ positions'[k].peak >= positions'[k].entry
    /\ k \notin DOMAIN positions => positions'[k].peak = positions'[k].entry
    /\ k \in DOMAIN positions =>
         /\ positions'[k].peak >= positions[k].peak
         /\ (tick' # tick /\ tick'.key = k /\ tick'.exitChecked) =>
              positions'[k].peak = Max(positions[k].peak, tick'.price)
         /\ ~(tick' # tick /\ tick'.key = k /\ tick'.exitChecked) =>
              positions'[k].peak = positions[k].peak

C7_PeakMonotone == [][C7_PeakStep]_vars

C7_Witness ==
  /\ tick.key \in DOMAIN positions
  /\ tick.pre # None
  /\ positions[tick.key].peak > tick.pre[1].peak
  /\ tick.pre[1].peak > tick.pre[1].entry

\* C8: a tick whose exit action is TP1 leaves the position open with the same
\* entry and opened timestamp, and a following tick at the same price finds
\* the position open (and leaves it open).
C8_Tp1Step ==
  /\ tick'.action = "TP1" =>
       /\ tick'.pre # None
       /\ tick'.key \in DOMAIN positions'
       /\ positions'[tick'.key].entry = tick'.pre[1].entry
       /\ positions'[tick'.key].opened = tick'.pre[1].opened
  /\ (tick.action = "TP1" /\ tick' # tick /\ tick'.key = tick.key
        /\ tick'.observed /\ tick'.price = tick.price) =>
       /\ tick'.pre # None
       /\ tick'.key \in DOMAIN positions'

C8_Tp1KeepsOpen == [][C8_Tp1Step]_vars

C8_Witness ==
  /\ tick.action = "TP1"
  /\ tick.pre # None
  /\ tick.pre[1].peak = tick.price
  /\ tick.key \in DOMAIN positions

\* C9: after a tick whose exit action is TP2, SL, TRAIL or TIME the key has no
\* position, on the Polymarket and on the Kalshi path.
C9_ClosingActionsClose ==
  (tick.src \in {"POLY", "KALSHI"} /\ tick.action \in {"TP2", "SL", "TRAIL", "TIME"}) =>
     tick.key \notin DOMAIN positions

C9_Witness ==
  /\ tick.src = "KALSHI"
  /\ tick.action = "TIME"
  /\ tick.pre # None
  /\ tick.key \notin DOMAIN positions

\* reachability of the other closing actions on both paths
ReachPolyTP2 == ~(tick.src = "POLY" /\ tick.action = "TP2")
ReachPolySL == ~(tick.src = "POLY" /\ tick.action = "SL")
ReachPolyTRAIL == ~(tick.src = "POLY" /\ tick.action = "TRAIL")
ReachPolyTIME == ~(tick.src = "POLY" /\ tick.action = "TIME")
ReachKalshiTP2 == ~(tick.src = "KALSHI" /\ tick.action = "TP2")
ReachKalshiSL == ~(tick.src = "KALSHI" /\ tick.action = "SL")

\* the guardrail domain read in the unit of the venue: Polymarket prices are
\* probabilities, Kalshi prices are cents of a dollar
InDomain(src, price) ==
  IF src = "KALSHI" THEN in_guardrails(price \div 100) ELSE in_guardrails(price)

\* C12: every price used for a signal decision or to open a position lies
\* within [MIN_PRICE, MAX_PRICE], on the Polymarket and on the Kalshi path.
C12_GuardrailDomain ==
  /\ tick.evaluated => InDomain(tick.src, tick.price)
  /\ tick.opened # None => InDomain(tick.src, tick.opened[1].entry)

\* the Polymarket path alone keeps the domain
C12_PolyDomain ==
  (tick.src = "POLY" /\ tick.evaluated) =>
     /\ in_guardrails(tick.price)
     /\ \A i \in 1..Len(history[tick.key]) : in_guardrails(history[tick.key][i].p)
     /\ tick.opened # None => in_guardrails(tick.opened[1].entry)

\* the warm-up length the configuration gives to the venue of a tick
MinSnapsOf(src) == IF src = "POLY" THEN LEAGUE_CFG.CBB.min_snaps ELSE KALSHI_MIN_SNAPS

\* C11: in a tick whose key has fewer than min_snaps observations in the
\* history (the tick's own push included) no alert of any class fires and no
\* position is opened.
C11_WarmUp ==
  (tick.src \in {"POLY", "KALSHI"} /\ hist_len(history, tick.key) < MinSnapsOf(tick.src)) =>
     /\ tick.fired = {}
     /\ tick.opened = None
     /\ tick.action = "none"
     /\ tick.key \notin DOMAIN positions

\* a warm-up tick whose displacement from the previous tick reaches min_move
C11_Witness ==
  /\ tick.src = "POLY"
  /\ tick.pushed
  /\ hist_len(history, tick.key) = LEAGUE_CFG.CBB.min_snaps - 1
  /\ Abs(tick.price - prev_price(history, tick.key)[1]) >= LEAGUE_CFG.CBB.min_move
  /\ tick.fired = {}

\* the position a tick's exit block works on, before its peak update
Held(tk) == IF tk.pre # None THEN tk.pre[1] ELSE tk.opened[1]

\* C15: for a position with entry 0.50 whose peak has risen to 0.55 while it
\* stayed open, an evaluated tick at 0.52 yields TRAIL and closes the position
\* (TRAIL_START 4c, TRAIL_GAP 2c); TRAIL never fires while
\* peak - entry < TRAIL_START_CENTS.
C15_TrailingStop ==
  /\ (tick.src = "POLY" /\ tick.exitChecked /\ tick.pre # None /\ tick.price = 520
        /\ tick.pre[1].entry = 500 /\ tick.pre[1].peak = 550) =>
       (tick.action = "TRAIL" /\ tick.key \notin DOMAIN positions)
  /\ (tick.src \in {"POLY", "KALSHI"} /\ tick.action = "TRAIL") =>
       cents_diff(Max(Held(tick).peak, tick.price), Held(tick).entry)
         >= TRAIL_START_CENTS * Units

C15_Witness ==
  /\ tick.src = "POLY"
  /\ tick.action = "TRAIL"
  /\ tick.pre # None
  /\ tick.pre[1].entry = 500
  /\ tick.pre[1].peak = 550
  /\ tick.price = 520
  /\ tick.key \notin DOMAIN positions

\* a position whose peak stays less than TRAIL_START_CENTS above the entry
\* falls back by TRAIL_GAP_CENTS and more without a TRAIL
ReachUnarmedFall ==
  ~(/\ tick.exitChecked
    /\ tick.pre # None
    /\ tick.pre[1].peak > tick.pre[1].entry
    /\ cents_diff(tick.pre[1].peak, tick.pre[1].entry) < TRAIL_START_CENTS * Units
    /\ cents_diff(tick.pre[1].peak, tick.price) >= TRAIL_GAP_CENTS * Units
    /\ tick.action \in {"none", "TIME"})

\* the displacement threshold of a venue
EntryMove(src) ==
  IF src = "POLY" THEN LEAGUE_CFG.CBB.min_move ELSE KALSHI_MIN_MOVE_CENTS * Units

\* the entry classes of a key
EntryClasses(k) == {k \o "|LIVE", k \o "|PREGAME", k \o "|ALERT"}

\* a step that creates a position: it is the tick of that key, the tick's
\* displacement trigger qualified, an entry class acquired its cooldown, and
\* the tick logged an ENTRY alert of that key at the position's entry price
C23_Opening ==
  \A k \in DOMAIN positions' \ DOMAIN positions :
    /\ tick'.key = k
    /\ tick'.t = now
    /\ Abs(tick'.price - prev_price(history', k)[1]) >= EntryMove(tick'.src)
    /\ tick'.fired \cap EntryClasses(k) # {}
    /\ positions'[k] = [entry |-> tick'.price, opened |-> now, peak |-> tick'.price]
    /\ \E i \in (Len(alerts_log) + 1)..Len(alerts_log') :
         /\ alerts_log'[i].kind = "ENTRY"
         /\ alerts_log'[i].ts = now
         /\ alerts_log'[i].price = positions'[k].entry
         /\ hist_key(alerts_log'[i].source, alerts_log'[i].league, alerts_log'[i].ident,
                     alerts_log'[i].outcome) = k

\* C23: positions are opened only by entry-class alerts. A position of a key
\* is created only in a tick in which the displacement trigger qualified and
\* its cooldown acquisition succeeded, with an ENTRY alert logged in that tick
\* at the position's entry price; SCOUT alerts never open a position.
C23_OpenedByEntry == [][C23_Opening]_vars

\* a tick that fired scout alerts only, with no position after it
ReachScoutOnly ==
  /\ tick.evaluated
  /\ tick.fired # {}
  /\ tick.fired \cap EntryClasses(tick.key) = {}
  /\ tick.key \notin DOMAIN positions
  /\ tick.pre = None

\* C23 witness: a position opened in a Polymarket tick whose entry alert is
\* the latest of the log
C23_Witness ==
  /\ tick.src = "POLY"
  /\ tick.opened # None
  /\ tick.key \in DOMAIN positions
  /\ alerts_log # << >>
  /\ alerts_log[Len(alerts_log)].kind = "ENTRY"

\* the same for a Kalshi tick
ReachKalshiOpened ==
  /\ tick.src = "KALSHI"
  /\ tick.opened # None
  /\ tick.key \in DOMAIN positions
  /\ alerts_log # << >>
  /\ alerts_log[Len(alerts_log)].kind = "ENTRY"

\* one cent in the price unit of a venue: Polymarket quotes in [0, 1], Kalshi
\* in whole cents
Cent(src) == IF src = "KALSHI" THEN Units ELSE Units \div 100

\* the exit of a tick against thresholds of so many cents, for the ticks of
\* the venues in srcs
ExitInCents(srcs) ==
  (tick.src \in srcs /\ tick.exitChecked /\ tick.pre # None) =>
    LET entry == tick.pre[1].entry
        peak == Max(tick.pre[1].peak, tick.price)
        cent == Cent(tick.src)
    IN  /\ tick.action = "TP2" => tick.price >= entry + TP2_CENTS * cent
        /\ tick.action = "SL" => tick.price <= entry - SL_CENTS * cent
        /\ tick.action = "TRAIL" => tick.price <= peak - TRAIL_GAP_CENTS * cent

\* C30: exit thresholds mean cents on both venues. For a Kalshi position
\* (prices in whole cents) TP2 fires only when the yes price is at or above
\* entry + TP2_CENTS cents, SL only at or below entry - SL_CENTS cents, TRAIL
\* only at or below peak - TRAIL_GAP_CENTS cents, as for a Polymarket position
\* quoted in [0, 1].
C30_CentsOnBothVenues == ExitInCents({"POLY", "KALSHI"})

\* the thresholds do mean cents on the Polymarket path
C30_PolyCents == ExitInCents({"POLY"})

\* a Kalshi position closed by TP2 two cents over its entry
ReachKalshiEarlyTP2 ==
  /\ tick.src = "KALSHI"
  /\ tick.pre # None
  /\ tick.action = "TP2"
  /\ tick.price - tick.pre[1].entry = 2 * Cent("KALSHI")

\* C31: at the end of every tick, every position that is still open has
\* (peak - entry) * 100 < TP2_CENTS: the peak is raised only in the exit
\* block, right before an exit evaluation at the same price, so a peak that
\* reaches entry + TP2 closes the position in that tick.
C31_PeakBelowTP2 ==
  \A k \in DOMAIN positions :
    /\ positions[k].entry <= positions[k].peak
    /\ cents_diff(positions[k].peak, positions[k].entry) < TP2_CENTS * Units

\* C31 witness: a tick whose exit block raised the peak of a position above
\* its entry and left the position open
C31_Witness ==
  /\ tick.exitChecked
  /\ tick.pre # None
  /\ tick.key \in DOMAIN positions
  /\ positions[tick.key].peak = tick.price
  /\ positions[tick.key].peak > tick.pre[1].peak

\* a tick whose price reached entry + TP2: the position is gone
ReachPeakAtTP2 ==
  /\ tick.exitChecked
  /\ tick.pre # None
  /\ cents_diff(tick.price, tick.pre[1].entry) >= TP2_CENTS * Units
  /\ tick.key \notin DOMAIN positions

\* the closing actions of a venue
ClosingOf(src) == IF src = "POLY" THEN POLY_CLOSING ELSE KALSHI_CLOSING

\* a tick handles the entry before the exit: a position that the tick opened
\* is still open, untouched, when the tick ends; a position the tick closed
\* is absent when the tick ends; a position present before and after the
\* tick is the same position (same entry, same opening time)
C32_Tick ==
  (tick' # tick) =>
    LET k == tick'.key IN
    /\ (k \notin DOMAIN positions /\ tick'.opened # None) =>
          /\ k \in DOMAIN positions'
          /\ positions'[k] = tick'.opened[1]
          /\ positions'[k] = [entry |-> tick'.price, opened |-> now, peak |-> tick'.price]
          /\ tick'.action = "none"
    /\ (tick'.action \in ClosingOf(tick'.src)) =>
          /\ k \in DOMAIN positions
          /\ k \notin DOMAIN positions'
    /\ (k \in DOMAIN positions /\ k \in DOMAIN positions') =>
          /\ positions'[k].entry = positions[k].entry
          /\ positions'[k].opened = positions[k].opened

\* C32: inside a tick the entry is processed before the exit, so (TP, SL and
\* TIME_STOP_MIN being positive) a position opened in a tick is never closed
\* in that same tick, and a position closed in a tick is never re-opened in
\* that same tick.
C32_EntryBeforeExit == [][C32_Tick]_vars

\* C32 witness: a tick that opened a position where there was none; its exit
\* block ran on the new position and gave no signal
C32_Witness ==
  /\ tick.pre = None
  /\ tick.opened # None
  /\ tick.exitChecked
  /\ tick.action = "none"
  /\ tick.key \in DOMAIN positions
  /\ positions[tick.key].opened = tick.t

\* a tick whose entry class fired on an open position and whose exit block
\* then closed it: the position is not opened again
ReachEntryThenClose ==
  /\ tick.pre # None
  /\ tick.fired \cap EntryClasses(tick.key) # {}
  /\ tick.action \in ClosingOf(tick.src)
  /\ tick.key \notin DOMAIN positions

\* the entries a step appended to the alerts log
Appended == SubSeq(alerts_log', Len(alerts_log) + 1, Len(alerts_log'))

\* the UPDATE entries among them
UpdatesOf(l) == { i \in 1..Len(l) : l[i].kind = "UPDATE" }

\* an evaluated tick on a position whose pnl is in [TP1_CENTS, TP2_CENTS)
InTP1Band(tk, pos) ==
  /\ tk.evaluated
  /\ tk.key \in DOMAIN pos
  /\ cents_diff(tk.price, pos[tk.key].entry) >= TP1_CENTS * Units
  /\ cents_diff(tk.price, pos[tk.key].entry) < TP2_CENTS * Units

\* such a tick logs exactly one UPDATE entry, of reason exit-TP1 at the
\* tick's price, keeps the position, and changes no cooldown record other
\* than those of the alert classes that fired in the tick
C33_Tick ==
  (tick' # tick /\ InTP1Band(tick', positions)) =>
    /\ tick'.action = "TP1"
    /\ Cardinality(UpdatesOf(Appended)) = 1
    /\ \A i \in UpdatesOf(Appended) :
         /\ Appended[i].reason = "exit-TP1"
         /\ Appended[i].ts = now
         /\ Appended[i].price = tick'.price
         /\ hist_key(Appended[i].source, Appended[i].league, Appended[i].ident,
                     Appended[i].outcome) = tick'.key
    /\ \A ck \in DOMAIN cooldowns' :
         ck \notin tick'.fired => (ck \in DOMAIN cooldowns /\ cooldowns'[ck] = cooldowns[ck])
    /\ tick'.key \in DOMAIN positions'

\* C33: update notifications are not cooldown-gated. In every evaluated tick
\* in which an open position's pnl lies in [TP1_CENTS, TP2_CENTS), exactly one
\* UPDATE entry with reason exit-TP1 is logged, tick after tick for as long
\* as the price stays in the band, and no cooldown record is written by it.
C33_UpdatesNotGated == [][C33_Tick]_vars

\* C33 witness: the second of two consecutive TP1 updates of a position,
\* SCAN_SEC apart (inside every cooldown window), no alert class having fired
C33_Witness ==
  /\ tick.action = "TP1"
  /\ tick.fired = {}
  /\ Len(alerts_log) >= 2
  /\ alerts_log[Len(alerts_log)].reason = "exit-TP1"
  /\ alerts_log[Len(alerts_log) - 1].reason = "exit-TP1"
  /\ alerts_log[Len(alerts_log)].ts = alerts_log[Len(alerts_log) - 1].ts + SCAN_SEC
  /\ alerts_log[Len(alerts_log)].ts = tick.t

(***************************************************************************)
(* exit_signal as a function: every position and every price and age.      *)
(***************************************************************************)
ExitEntries == {500, 52000}

ExitGains == {0, 20, 39, 40, 50, 70}

ExitMoves == {-30, -20, -19, 0, 14, 15, 20, 29, 30, 40, 59, 60, 70}

ExitAges == {0, 1140, 1199, 1200, 1260}

InitExit ==
  /\ now \in {StartTs + a : a \in ExitAges}
  /\ enabled \in Deployments
  /\ pc = "exit"
  /\ history = EmptyMap
  /\ cooldowns = EmptyMap
  /\ positions \in {EmptyMap} \cup
       { [k \in {KPoly} |-> [entry |-> e, opened |-> StartTs, peak |-> e + g]] :
           e \in ExitEntries, g \in ExitGains }
  /\ first_seen = EmptyMap
  /\ alerts_log = << >>
  /\ kalshi_last_scan_ts = 0
  /\ kalshi_snapshot = EmptyMap
  /\ last_sent = EmptyMap
  /\ tick = NoTick
  /\ alert_ts = EmptyMap
  /\ call = NoCall
  /\ pushed = EmptyMap
  /\ feed = << >>
  /\ WS_STATE = EmptyMap
  /\ WS_LAST_TS = None
  /\ visited = {}
  /\ ws_iter = None
  /\ written = {}
  /\ files = EmptyMap
  /\ saves = {}
  /\ last_recap_day = None
  /\ recaps = << >>
  /\ kscan = None

ExitCall ==
  /\ pc = "exit"
  /\ \E e \in ExitEntries, d \in ExitMoves :
       LET sig == exit_signal(positions, KPoly, e + d, now)
       IN  tick' = [NoTick EXCEPT !.t = now, !.src = "EXIT", !.key = KPoly,
                                  !.observed = TRUE, !.price = e + d,
                                  !.pre = Pre(positions, KPoly), !.exitChecked = TRUE,
                                  !.action = IF sig = None THEN "none" ELSE sig[1]]
  /\ UNCHANGED <<now, enabled, files, saves, last_recap_day, recaps, kscan, pc, history,
                 cooldowns, positions, first_seen, alerts_log, kalshi_last_scan_ts,
                 kalshi_snapshot, last_sent, alert_ts, call, pushed, feed, WS_STATE,
                 WS_LAST_TS, ws_iter, written, visited>>

NextExit == ExitCall

SpecExit == InitExit /\ [][NextExit]_vars

\* the first label of a list of <<label, condition>> whose condition holds
FirstMatch(rules) ==
  IF \E i \in 1..Len(rules) : rules[i][2]
  THEN rules[CHOOSE i \in 1..Len(rules) :
               rules[i][2] /\ \A j \in 1..(i - 1) : ~rules[j][2]][1]
  ELSE "none"

\* C1: exit_signal gives the first matching action in the order TP2, TP1, SL,
\* TRAIL, TIME, else none; a price at or above entry + TP2 gives TP2 (never
\* TP1); a key without a position gives none.  Amounts are compared in
\* hundredths of a unit: 100 * price against cents * Units.
C1_ExitPriority ==
  tick.src = "EXIT" =>
    IF tick.pre = None
    THEN tick.action = "none"
    ELSE LET entry == tick.pre[1].entry
             peak == tick.pre[1].peak
             age == tick.t - tick.pre[1].opened
             pnl == 100 * (tick.price - entry)
         IN  /\ tick.action =
                  FirstMatch(<< << "TP2", pnl >= TP2_CENTS * Units >>,
                                << "TP1", pnl >= TP1_CENTS * Units >>,
                                << "SL", pnl + SL_CENTS * Units <= 0 >>,
                                << "TRAIL", /\ 100 * (peak - entry) >= TRAIL_START_CENTS * Units
                                            /\ 100 * tick.price + TRAIL_GAP_CENTS * Units <= 100 * peak >>,
                                << "TIME", /\ age >= 60 * TIME_STOP_MIN
                                           /\ 2 * pnl < TP1_CENTS * Units >> >>)
             /\ (100 * tick.price >= 100 * entry + TP2_CENTS * Units) => tick.action = "TP2"

C1_Witness ==
  /\ tick.src = "EXIT"
  /\ tick.pre # None
  /\ tick.price = tick.pre[1].entry + 70
  /\ tick.pre[1].peak = tick.pre[1].entry
  /\ tick.action = "TP2"

\* C16: for an open position whose pnl is below TP1_CENTS * 0.5 and for which
\* no TP, SL or TRAIL condition holds, exit evaluation yields TIME when the age
\* is TIME_STOP_MIN minutes or more and nothing when the age is below it.
C16_TimeStop ==
  (tick.src = "EXIT" /\ tick.pre # None) =>
    LET p == tick.pre[1]
        pnl_c == cents_diff(tick.price, p.entry)
        quiet == /\ 2 * pnl_c < TP1_CENTS * Units
                 /\ pnl_c > -(SL_CENTS * Units)
                 /\ ~(/\ cents_diff(p.peak, p.entry) >= TRAIL_START_CENTS * Units
                      /\ 100 * (p.peak - tick.price) >= TRAIL_GAP_CENTS * Units)
    IN  quiet => tick.action = (IF tick.t - p.opened >= TIME_STOP_MIN * 60
                                THEN "TIME" ELSE "none")

\* the time stop at the age of exactly TIME_STOP_MIN minutes
C16_Witness ==
  /\ tick.src = "EXIT"
  /\ tick.pre # None
  /\ tick.t - tick.pre[1].opened = TIME_STOP_MIN * 60
  /\ tick.price > tick.pre[1].entry
  /\ tick.action = "TIME"

\* one second before TIME_STOP_MIN minutes: nothing fires from time alone
ReachExitYoung ==
  ~(/\ tick.src = "EXIT"
    /\ tick.pre # None
    /\ tick.t - tick.pre[1].opened = TIME_STOP_MIN * 60 - 1
    /\ tick.price = tick.pre[1].entry
    /\ tick.action = "none")

ReachExitTP1 == ~(tick.src = "EXIT" /\ tick.action = "TP1")
ReachExitSL == ~(tick.src = "EXIT" /\ tick.action = "SL")
ReachExitTRAIL == ~(tick.src = "EXIT" /\ tick.action = "TRAIL")
ReachExitTIME == ~(tick.src = "EXIT" /\ tick.action = "TIME")
ReachExitNone == ~(tick.src = "EXIT" /\ tick.pre # None /\ tick.action = "none")

(***************************************************************************)
(* The cooldown gates called directly: runner.cooldown_ok with the class in *)
(* the cooldown key, and signals.can_send with the class in is_live.       *)
(***************************************************************************)
LIVE_ALERT_COOLDOWN_SEC == 600

PREGAME_ALERT_COOLDOWN_SEC == 900

cooldown_for(is_live) == IF is_live THEN LIVE_ALERT_COOLDOWN_SEC ELSE PREGAME_ALERT_COOLDOWN_SEC

can_send(sent, key, is_live, t) ==
  LET last == Get(sent, key, 0)
      cd == cooldown_for(is_live)
  IN  IF t - last < cd
      THEN [ok |-> FALSE, last_sent |-> sent]
      ELSE [ok |-> TRUE,
            last_sent |-> [k \in DOMAIN sent \cup {key} |-> IF k = key THEN t ELSE sent[k]]]

\* the gates are tried every half scan period
GateStep == SCAN_SEC \div 2

MaxGateSteps == 5

GateCoolKeys == {KPoly \o "|LIVE", KPoly \o "|PREGAME"}

GateSendKeys == {"cbb-g1|Duke"}

LastOf(ats, g) == IF g \in DOMAIN ats THEN << ats[g][Len(ats[g])] >> ELSE None

\* the gate exploration keeps the latest success of each gate only
NotedLatest(ats, fired, t) ==
  [k \in DOMAIN ats \cup fired |-> IF k \in fired THEN << t >> ELSE ats[k]]

GateCooldownOk ==
  /\ pc = "gate"
  /\ \E ck \in GateCoolKeys :
       LET r == cooldown_ok(cooldowns, ck, CooldownOf(ck), now)
           g == "cooldown_ok:" \o ck
       IN  /\ cooldowns' = r.cooldowns
           /\ call' = [fn |-> "cooldown_ok", key |-> ck, cd |-> CooldownOf(ck), ret |-> r.ok,
                       t |-> now, prev |-> LastOf(alert_ts, g),
                       fresh |-> (g \notin DOMAIN alert_ts)]
           /\ alert_ts' = NotedLatest(alert_ts, IF r.ok THEN {g} ELSE {}, now)
  /\ UNCHANGED <<now, enabled, files, saves, last_recap_day, recaps, kscan, pc, history,
                 positions, first_seen, alerts_log, kalshi_last_scan_ts, kalshi_snapshot,
                 last_sent, tick, pushed, feed, WS_STATE, WS_LAST_TS, ws_iter, written,
                 visited>>

GateCanSend ==
  /\ pc = "gate"
  /\ \E key \in GateSendKeys, is_live \in BOOLEAN :
       LET r == can_send(last_sent, key, is_live, now)
           g == "can_send:" \o key \o (IF is_live THEN "|live" ELSE "|pregame")
       IN  /\ last_sent' = r.last_sent
           /\ call' = [fn |-> "can_send", key |-> key, cd |-> cooldown_for(is_live),
                       ret |-> r.ok, t |-> now, prev |-> LastOf(alert_ts, g),
                       fresh |-> (\A c \in {"|live", "|pregame"} :
                                    ("can_send:" \o key \o c) \notin DOMAIN alert_ts)]
           /\ alert_ts' = NotedLatest(alert_ts, IF r.ok THEN {g} ELSE {}, now)
  /\ UNCHANGED <<now, enabled, files, saves, last_recap_day, recaps, kscan, pc, history,
                 cooldowns, positions, first_seen, alerts_log, kalshi_last_scan_ts,
                 kalshi_snapshot, tick, pushed, feed, WS_STATE, WS_LAST_TS, ws_iter,
                 written, visited>>

GateAdvance ==
  /\ pc = "gate"
  /\ now + GateStep <= StartTs + MaxGateSteps * GateStep
  /\ now' = now + GateStep
  /\ UNCHANGED <<enabled, files, saves, last_recap_day, recaps, kscan, pc, history,
                 cooldowns, positions, first_seen, alerts_log, kalshi_last_scan_ts,
                 kalshi_snapshot, last_sent, tick, alert_ts, call, pushed, feed, WS_STATE,
                 WS_LAST_TS, ws_iter, written, visited>>

InitGate ==
  /\ now = StartTs
  /\ enabled \in {d \in Deployments : d.ENABLE_POLY_SPORTS}
  /\ pc = "gate"
  /\ history = EmptyMap
  /\ cooldowns = EmptyMap
  /\ positions = EmptyMap
  /\ first_seen = EmptyMap
  /\ alerts_log = << >>
  /\ kalshi_last_scan_ts = 0
  /\ kalshi_snapshot = EmptyMap
  /\ last_sent = EmptyMap
  /\ tick = NoTick
  /\ alert_ts = EmptyMap
  /\ call = NoCall
  /\ pushed = EmptyMap
  /\ feed = << >>
  /\ WS_STATE = EmptyMap
  /\ WS_LAST_TS = None
  /\ visited = {}
  /\ ws_iter = None
  /\ written = {}
  /\ files = EmptyMap
  /\ saves = {}
  /\ last_recap_day = None
  /\ recaps = << >>
  /\ kscan = None

NextGate == GateCooldownOk \/ GateCanSend \/ GateAdvance

SpecGate == InitGate /\ [][NextGate]_vars

\* what a gate kept per (key, class) answers: true on the first acquire of a
\* key never acquired, then true exactly when at least cd has passed since the
\* latest success of that (key, class)
GateAnswers(c) ==
  IF c.prev = None
  THEN c.fresh => c.ret
  ELSE c.ret <=> (c.t - c.prev[1] >= c.cd)

\* C4: for one (key, class): the first acquire returns true, an acquire less
\* than cooldown_seconds after the latest success returns false, the first
\* acquire at or after that returns true; for runner.cooldown_ok and for
\* signals.can_send.
C4_GateSequence ==
  call.fn \in {"cooldown_ok", "can_send"} => GateAnswers(call)

\* the same sequence, runner.cooldown_ok alone
C4_RunnerGateSequence ==
  call.fn = "cooldown_ok" => GateAnswers(call)

\* C5: a successful acquire sets the record of exactly that cooldown key to
\* now; a failed acquire leaves that record and every other record unchanged.
C5_CheckAndSetStep ==
  (call'.fn = "cooldown_ok" /\ now' = now /\ call'.t = now) =>
     IF call'.ret
     THEN /\ DOMAIN cooldowns' = DOMAIN cooldowns \cup {call'.key}
          /\ cooldowns'[call'.key] = now
          /\ \A k \in DOMAIN cooldowns \ {call'.key} : cooldowns'[k] = cooldowns[k]
     ELSE cooldowns' = cooldowns

C5_CheckAndSet == [][C5_CheckAndSetStep]_vars

C5_Witness ==
  /\ call.fn = "cooldown_ok"
  /\ ~call.ret
  /\ call.prev # None
  /\ cooldowns[call.key] = call.prev[1]
  /\ call.t > call.prev[1]
  /\ Cardinality(DOMAIN cooldowns) >= 2

(***************************************************************************)
(* push_history over a long run of one key (one observation per cycle).    *)
(***************************************************************************)
MaxHistPushes == 323

Feeds == { << 500 >>, << 500, 510 >>, << 500, 510, 520 >> }

InitHist ==
  /\ now = StartTs
  /\ enabled \in {d \in Deployments : d.ENABLE_POLY_SPORTS}
  /\ pc = "hist"
  /\ history = EmptyMap
  /\ cooldowns = EmptyMap
  /\ positions = EmptyMap
  /\ first_seen = EmptyMap
  /\ alerts_log = << >>
  /\ kalshi_last_scan_ts = 0
  /\ kalshi_snapshot = EmptyMap
  /\ last_sent = EmptyMap
  /\ tick = NoTick
  /\ alert_ts = EmptyMap
  /\ call = NoCall
  /\ pushed = EmptyMap
  /\ feed \in Feeds
  /\ WS_STATE = EmptyMap
  /\ WS_LAST_TS = None
  /\ visited = {}
  /\ ws_iter = None
  /\ written = {}
  /\ files = EmptyMap
  /\ saves = {}
  /\ last_recap_day = None
  /\ recaps = << >>
  /\ kscan = None

HistPush ==
  /\ pc = "hist"
  /\ Pushes < MaxHistPushes
  /\ LET price == feed[(Pushes % Len(feed)) + 1]
     IN  /\ history' = push_history(history, KPoly, price, now)
         /\ pushed' = NotePush(pushed, KPoly, price, now)
  /\ now' = now + SCAN_SEC
  /\ UNCHANGED <<enabled, files, saves, last_recap_day, recaps, kscan, pc, cooldowns,
                 positions, first_seen, alerts_log, kalshi_last_scan_ts, kalshi_snapshot,
                 last_sent, tick, alert_ts, call, feed, WS_STATE, WS_LAST_TS, ws_iter,
                 written, visited>>

NextHist == HistPush

SpecHist == InitHist /\ [][NextHist]_vars

\* the last n entries of a sequence
Latest(q, n) == SubSeq(q, Len(q) - n + 1, Len(q))

\* C10: after any sequence of pushes to a key its history holds at most 320
\* entries, and they are the most recent min(number of pushes, 320)
\* observations, in push order.
C10_HistoryBound ==
  /\ DOMAIN history = DOMAIN pushed
  /\ \A k \in DOMAIN history :
       /\ Len(history[k]) <= 320
       /\ Len(history[k]) = Min(Len(pushed[k]), 320)
       /\ history[k] = Latest(pushed[k], Min(Len(pushed[k]), 320))

C10_Witness ==
  /\ KPoly \in DOMAIN history
  /\ Len(pushed[KPoly]) > 321
  /\ Len(history[KPoly]) = 320
  /\ history[KPoly][1] = pushed[KPoly][Len(pushed[KPoly]) - 319]

(***************************************************************************)
(* signals.should_alert as a function                                      *)
(***************************************************************************)
\* the state of a fresh process: nothing stored, nothing observed
FreshState ==
  /\ history = EmptyMap
  /\ cooldowns = EmptyMap
  /\ positions = EmptyMap
  /\ first_seen = EmptyMap
  /\ alerts_log = << >>
  /\ kalshi_last_scan_ts = 0
  /\ kalshi_snapshot = EmptyMap
  /\ last_sent = EmptyMap
  /\ tick = NoTick
  /\ alert_ts = EmptyMap
  /\ call = NoCall
  /\ pushed = EmptyMap
  /\ feed = << >>
  /\ WS_STATE = EmptyMap
  /\ WS_LAST_TS = None
  /\ visited = {}
  /\ ws_iter = None
  /\ written = {}
  /\ files = EmptyMap
  /\ saves = {}
  /\ last_recap_day = None
  /\ recaps = << >>
  /\ kscan = None

MIN_MOVE == 40

\* variant: no price-domain test
should_alert_noguard(price_now, price_prev) ==
  IF price_now = None \/ price_prev = None
  THEN FALSE
  ELSE Abs(price_now[1] - price_prev[1]) >= MIN_MOVE

should_alert(price_now, price_prev) ==
  IF price_now = None \/ price_prev = None
  THEN FALSE
  ELSE IF price_now[1] < MIN_PRICE \/ price_now[1] > MAX_PRICE
       THEN FALSE
       ELSE Abs(price_now[1] - price_prev[1]) >= MIN_MOVE

AlertPrices ==
  {None, << 10 >>, << 49 >>, << 50 >>, << 89 >>, << 90 >>, << 500 >>, << 539 >>, << 540 >>,
   << 910 >>, << 950 >>, << 951 >>, << 990 >>}

InitAlert ==
  /\ now = StartTs
  /\ enabled \in {d \in Deployments : d.ENABLE_POLY_SPORTS}
  /\ pc = "alert"
  /\ FreshState

ShouldAlertCall ==
  /\ pc = "alert"
  /\ \E price_now \in AlertPrices, price_prev \in AlertPrices :
       call' = [fn |-> "should_alert", price_now |-> price_now, price_prev |-> price_prev,
                ret |-> should_alert(price_now, price_prev)]
  /\ UNCHANGED <<now, enabled, files, saves, last_recap_day, recaps, kscan, pc, history,
                 cooldowns, positions, first_seen, alerts_log, kalshi_last_scan_ts,
                 kalshi_snapshot, last_sent, tick, alert_ts, pushed, feed, WS_STATE,
                 WS_LAST_TS, ws_iter, written, visited>>

NextAlert == ShouldAlertCall

SpecAlert == InitAlert /\ [][NextAlert]_vars

\* C13: should_alert(price_now, price_prev) is true iff price_now is within
\* [MIN_PRICE, MAX_PRICE] and |price_now - price_prev| >= MIN_MOVE; it is false
\* for every price_now outside the domain whatever the move, and false when
\* either input is absent.
C13_ShouldAlert ==
  call.fn = "should_alert" =>
    LET a == call.price_now
        b == call.price_prev
    IN  /\ (a = None \/ b = None) => ~call.ret
        /\ (a # None /\ (a[1] < MIN_PRICE \/ a[1] > MAX_PRICE)) => ~call.ret
        /\ (a # None /\ b # None) =>
             (call.ret <=> /\ MIN_PRICE <= a[1]
                           /\ a[1] <= MAX_PRICE
                           /\ (a[1] - b[1] >= MIN_MOVE \/ b[1] - a[1] >= MIN_MOVE))

\* a call at the upper edge of the domain with a move of exactly MIN_MOVE
C13_Witness ==
  /\ call.fn = "should_alert"
  /\ call.price_now = << MAX_PRICE >>
  /\ call.price_prev = << MAX_PRICE - MIN_MOVE >>
  /\ call.ret

\* a call just outside the domain with a large move is refused
ReachAlertOutside ==
  ~(call.fn = "should_alert" /\ call.price_now = << 951 >> /\ call.price_prev = << 500 >>
      /\ ~call.ret)

(***************************************************************************)
(* The scan loop on one fresh key of a league with min_snaps = 12          *)
(***************************************************************************)
KScen == hist_key("POLY", "NBA", "nba-g1", "Lakers")

\* the prices the venue reports: 0.50 on ticks 1 to 11, 0.56 on tick 12
ScenTicks == LEAGUE_CFG.NBA.min_snaps

ScenPrice(n) == IF n < ScenTicks THEN 500 ELSE 560

\* cycles in which the market is not listed
MaxIdle == 2

ScenLiquidities == {5000, 20000}

InitScen ==
  /\ now = StartTs
  /\ enabled \in {d \in Deployments : d.ENABLE_POLY_SPORTS}
  /\ pc = "scen"
  /\ FreshState

\* one cycle with the market listed: the outcome body, then save and sleep
ScenTick ==
  /\ pc = "scen"
  /\ Pushes < ScenTicks
  /\ \E is_live \in BOOLEAN, liq \in ScenLiquidities :
       PolyOutcome("NBA", "nba-g1", "Lakers", is_live, ScenPrice(Pushes + 1), liq, None)
  /\ now' = now + SCAN_SEC
  /\ UNCHANGED <<enabled, files, saves, last_recap_day, recaps, kscan, pc,
                 kalshi_last_scan_ts, kalshi_snapshot, last_sent, call, feed, WS_STATE,
                 WS_LAST_TS, ws_iter, written, visited>>

\* one cycle without the market: save and sleep only
ScenIdle ==
  /\ pc = "scen"
  /\ Pushes < ScenTicks
  /\ now + SCAN_SEC <= StartTs + (Pushes + MaxIdle) * SCAN_SEC
  /\ now' = now + SCAN_SEC
  /\ UNCHANGED <<enabled, files, saves, last_recap_day, recaps, kscan, pc, history,
                 cooldowns, positions, first_seen, alerts_log, kalshi_last_scan_ts,
                 kalshi_snapshot, last_sent, tick, alert_ts, call, pushed, feed, WS_STATE,
                 WS_LAST_TS, ws_iter, written, visited>>

NextScen == ScenTick \/ ScenIdle

SpecScen == InitScen /\ [][NextScen]_vars

\* the number of observations of the scenario key so far
ScenSeen == IF KScen \in DOMAIN pushed THEN Len(pushed[KScen]) ELSE 0

\* C14: with min_snaps = 12, min_move = 0.05, big_move = 0.06 and every
\* cooldown open, price 0.50 on ticks 1 to 11 gives no alert, and price 0.56
\* on tick 12 gives exactly one alert and a new position with
\* entry = peak = 0.56.
C14_Scenario ==
  /\ ScenSeen < ScenTicks => (alerts_log = << >> /\ positions = EmptyMap)
  /\ ScenSeen = ScenTicks =>
       /\ Len(alerts_log) = 1
       /\ KScen \in DOMAIN positions
       /\ positions[KScen].entry = 560
       /\ positions[KScen].peak = 560

\* the scenario as the code runs it: nothing before tick 12; on tick 12 the
\* position opens at 0.56, with one alert (the entry) when the game is live
\* and with the momentum scout alert beside the entry alert before the game
C14_ScenarioAsCoded ==
  /\ ScenSeen < ScenTicks => (alerts_log = << >> /\ positions = EmptyMap)
  /\ ScenSeen = ScenTicks =>
       /\ KScen \in DOMAIN positions
       /\ positions[KScen] = [entry |-> 560, opened |-> tick.t, peak |-> 560]
       /\ (KScen \o "|LIVE") \in tick.fired => Len(alerts_log) = 1
       /\ (KScen \o "|PREGAME") \in tick.fired =>
            /\ (KScen \o "|SCOUT_MOM") \in tick.fired
            /\ Len(alerts_log) = Cardinality(tick.fired)
            /\ Len(alerts_log) >= 2

ReachScenLive == ~(ScenSeen = ScenTicks /\ tick.fired = {KScen \o "|LIVE"})

(***************************************************************************)
(* The scan loop with failures: two Polymarket slugs and two Kalshi        *)
(* markets per cycle, any of which may raise                               *)
(***************************************************************************)
\* cycles that start at a multiple of SCAN_SEC after the first one
MaxRecCycles == 1

\* failures injected in one run
MaxRaises == 1

\* the sleep of the top-level handler
RECOVER_SLEEP == 10

\* a Gamma answer: no market, a first element that is not an object (its
\* .get raises in extract_poly_outcomes), or one outcome at a mid price
RecMarkets == {"none", "bad", "ok"}

RecPrices == {500}

\* a Kalshi volume: a text float() rejects, or a number
RecVolumes == {"text", "number"}

RecVolume == KALSHI_MIN_VOLUME + 1000

RecSlugs == << [slug |-> "cbb-g1", team |-> "Duke"], [slug |-> "cbb-g2", team |-> "UNC"] >>

RecTickers == << "SEN-1", "SEN-2" >>

\* every item a complete cycle works on, in loop order
RecItems == << "cbb-g1", "cbb-g2", "SEN-1", "SEN-2" >>

NoFailure == [fn |-> "none", key |-> "", ret |-> FALSE, t |-> 0, n |-> 0]

Raised(item) == [fn |-> "raise", key |-> item, ret |-> FALSE, t |-> now, n |-> call.n + 1]

\* variant: a failing save in the handler ends the process
on_cycle_error_fatal(save_ok) == IF save_ok THEN "slug1" ELSE "dead"

\* the top-level handler: where the loop goes after printing the error and
\* trying save_state, whose own failure it swallows
on_cycle_error(save_ok) == "slug1"

InitRec ==
  /\ now = StartTs
  /\ enabled = [ENABLE_POLY_SPORTS |-> TRUE, ENABLE_KALSHI |-> TRUE]
  /\ pc = "slug1"
  /\ history = EmptyMap
  /\ cooldowns = EmptyMap
  /\ positions = EmptyMap
  /\ first_seen = EmptyMap
  /\ alerts_log = << >>
  /\ kalshi_last_scan_ts = 0
  /\ kalshi_snapshot = EmptyMap
  /\ last_sent = EmptyMap
  /\ tick = NoTick
  /\ alert_ts = EmptyMap
  /\ call = NoFailure
  /\ pushed = EmptyMap
  /\ feed = << >>
  /\ WS_STATE = EmptyMap
  /\ WS_LAST_TS = None
  /\ visited = {}
  /\ ws_iter = None
  /\ written = {}
  /\ files = EmptyMap
  /\ saves = {}
  /\ last_recap_day = None
  /\ recaps = << >>
  /\ kscan = None

\* one iteration of the slug loop
RecSlug(i) ==
  /\ pc = (IF i = 1 THEN "slug1" ELSE "slug2")
  /\ enabled.ENABLE_POLY_SPORTS
  /\ i = 1 => now < StartTs + (MaxRecCycles + 1) * SCAN_SEC
  /\ visited' = visited \cup {RecSlugs[i].slug}
  /\ \E market \in RecMarkets, mid \in RecPrices :
       CASE market = "none" ->
              /\ pc' = (IF i = 1 THEN "slug2" ELSE "kalshi1")
              /\ UNCHANGED <<history, cooldowns, positions, first_seen, alerts_log, tick,
                             alert_ts, pushed, call>>
         [] market = "bad" ->
              /\ call.n < MaxRaises
              /\ pc' = "recover"
              /\ call' = Raised(RecSlugs[i].slug)
              /\ UNCHANGED <<history, cooldowns, positions, first_seen, alerts_log, tick,
                             alert_ts, pushed>>
         [] OTHER ->
              /\ pc' = (IF i = 1 THEN "slug2" ELSE "kalshi1")
              /\ PolyOutcome("CBB", RecSlugs[i].slug, RecSlugs[i].team,
                             RecSlugs[i].slug \in DOMAIN WS_STATE, mid, 3000, None)
              /\ UNCHANGED call
  /\ UNCHANGED <<now, enabled, files, saves, last_recap_day, recaps, kscan,
                 kalshi_last_scan_ts, kalshi_snapshot, last_sent, feed, WS_STATE,
                 WS_LAST_TS, ws_iter, written>>

\* one iteration of the Kalshi market loop; the first one follows the throttle
RecKalshi(i) ==
  /\ pc = (IF i = 1 THEN "kalshi1" ELSE "kalshi2")
  /\ IF i = 1 /\ ~(enabled.ENABLE_KALSHI /\ (now - kalshi_last_scan_ts) >= KALSHI_SCAN_SEC)
     THEN /\ pc' = "save"
          /\ UNCHANGED <<history, cooldowns, positions, alerts_log, tick, alert_ts, pushed,
                         kalshi_snapshot, kalshi_last_scan_ts, call, visited>>
     ELSE /\ kalshi_last_scan_ts' = now
          /\ visited' = visited \cup {RecTickers[i]}
          /\ \E volume \in RecVolumes :
               IF volume = "text"
               THEN /\ call.n < MaxRaises
                    /\ pc' = "save"
                    /\ call' = Raised(RecTickers[i])
                    /\ UNCHANGED <<history, cooldowns, positions, alerts_log, tick,
                                   alert_ts, pushed, kalshi_snapshot>>
               ELSE /\ pc' = (IF i = 1 THEN "kalshi2" ELSE "save")
                    /\ KalshiMarket("Senate race", RecTickers[i], << 50000 >>, RecVolume)
                    /\ UNCHANGED call
  /\ UNCHANGED <<now, enabled, files, saves, last_recap_day, recaps, kscan, first_seen,
                 last_sent, feed, WS_STATE, WS_LAST_TS, ws_iter, written>>

\* save_state and the sleep of a cycle that came through; a save that raises
\* goes to the top-level handler
RecSave ==
  /\ pc = "save"
  /\ \E save_ok \in BOOLEAN :
       IF save_ok
       THEN /\ pc' = "slug1"
            /\ now' = now + SCAN_SEC
            /\ visited' = {}
            /\ UNCHANGED call
       ELSE /\ call.n < MaxRaises
            /\ pc' = "recover"
            /\ call' = Raised("save_state")
            /\ UNCHANGED <<now, visited>>
  /\ UNCHANGED <<enabled, files, saves, last_recap_day, recaps, kscan, history, cooldowns,
                 positions, first_seen, alerts_log, kalshi_last_scan_ts, kalshi_snapshot,
                 last_sent, tick, alert_ts, pushed, feed, WS_STATE, WS_LAST_TS, ws_iter,
                 written>>

\* the top-level handler
RecRecover ==
  /\ pc = "recover"
  /\ \E save_ok \in BOOLEAN :
       /\ pc' = on_cycle_error(save_ok)
       /\ call' = [call EXCEPT !.fn = "recover", !.ret = save_ok]
  /\ now' = now + RECOVER_SLEEP
  /\ visited' = {}
  /\ UNCHANGED <<enabled, files, saves, last_recap_day, recaps, kscan, history, cooldowns,
                 positions, first_seen, alerts_log, kalshi_last_scan_ts, kalshi_snapshot,
                 last_sent, tick, alert_ts, pushed, feed, WS_STATE, WS_LAST_TS, ws_iter,
                 written>>

NextRec == (\E i \in {1, 2} : RecSlug(i)) \/ (\E i \in {1, 2} : RecKalshi(i)) \/ RecSave
             \/ RecRecover

\* the loop runs in one thread that is never starved: a handler that has
\* started runs to its end
SpecRec == InitRec /\ [][NextRec]_vars /\ WF_vars(RecRecover)

\* the items after item x in the loop order of a cycle
RECURSIVE After(_, _)
After(x, items) ==
  IF items = << >> THEN {}
  ELSE IF Head(items) = x THEN {Tail(items)[j] : j \in 1..Len(Tail(items))}
  ELSE After(x, Tail(items))

\* C17: when the work on one key raises during a cycle, the keys that follow
\* it in that cycle are still worked on.
C17_FailureIsolation ==
  (pc \in {"save", "recover"} /\ call.fn = "raise" /\ call.t = now) =>
     After(call.key, RecItems) \subseteq visited

\* C18: every exception raised in a cycle reaches the main loop's handler or
\* the Kalshi scan's, never ends the loop; the handler tries a save, swallows
\* its failure, sleeps a short while, and a next cycle begins.
C18_Caught ==
  (call' # call /\ call'.fn = "raise") => pc' \in {"recover", "save"}

C18_TopLevelRecovery ==
  /\ [][C18_Caught]_vars
  /\ [](pc \in {"slug1", "slug2", "kalshi1", "kalshi2", "save", "recover"})
  /\ (pc = "recover") ~> (pc = "slug1" /\ call.fn = "recover" /\ visited = {})

\* a cycle has begun after a failure whose handler could not save either
C18_Witness ==
  /\ pc = "slug2"
  /\ call.fn = "recover"
  /\ ~call.ret
  /\ call.t + RECOVER_SLEEP = now

(***************************************************************************)
(* load_state over the contents of the snapshot file                       *)
(***************************************************************************)
\* the fields load_state hands to the scan loop as containers; a JSON value
\* is kept by its type: "object", "list" or "null"
LoadFields == {"history", "cooldowns", "positions", "first_seen", "alerts_log", "last_slugs"}

DefaultType(f) == IF f = "alerts_log" THEN "list" ELSE "object"

\* the dictionary of the three return statements that build a fresh state
EmptyLoaded == [f \in LoadFields |-> DefaultType(f)]

\* a snapshot object: each field absent, null or of its right type
SnapshotObjects == [LoadFields -> {"absent", "null", "good"}]

NoObject == [f \in LoadFields |-> "absent"]

\* the snapshot file: missing, not JSON, JSON that is a list, or an object
SnapshotFiles ==
  {[kind |-> k, obj |-> NoObject] : k \in {"missing", "garbage", "list"}}
    \cup {[kind |-> "object", obj |-> o] : o \in SnapshotObjects}

load_state(file) ==
  IF file.kind = "missing"
  THEN EmptyLoaded
  ELSE IF file.kind \in {"garbage", "list"}
       THEN EmptyLoaded
       ELSE LET \* setdefault fills a field only when the key is absent
                sd == [f \in LoadFields |->
                         IF file.obj[f] = "absent"
                         THEN DefaultType(f)
                         ELSE (IF file.obj[f] = "good" THEN DefaultType(f) ELSE "null")]
            IN  \* s["last_slugs"].setdefault raises on null: the except branch
                IF sd["last_slugs"] # "object" THEN EmptyLoaded ELSE sd

\* the value a loaded container starts from; JSON null (Python None) is kept
\* as the one-element tuple << "null" >>, which no mapping or alert list equals
Null == << "null" >>

Container(type) == IF type = "null" THEN Null ELSE EmptyMap

InitLoad ==
  /\ now = StartTs
  /\ enabled \in {d \in Deployments : d.ENABLE_POLY_SPORTS}
  /\ pc = "load"
  /\ FreshState

\* STATE = load_state() at import
LoadState ==
  /\ pc = "load"
  /\ pc' = "loaded"
  /\ \E file \in SnapshotFiles :
       LET st == load_state(file)
       IN  /\ call' = [fn |-> "load_state", file |-> file, ret |-> st]
           /\ history' = Container(st["history"])
           /\ cooldowns' = Container(st["cooldowns"])
           /\ positions' = Container(st["positions"])
           /\ first_seen' = Container(st["first_seen"])
           /\ alerts_log' = Container(st["alerts_log"])
  /\ UNCHANGED <<now, enabled, files, saves, last_recap_day, recaps, kscan,
                 kalshi_last_scan_ts, kalshi_snapshot, last_sent, tick, alert_ts, pushed,
                 feed, WS_STATE, WS_LAST_TS, ws_iter, written, visited>>

\* the first push_history of the scan loop on the loaded state:
\* STATE["history"].setdefault raises when history is not a mapping
LoadedPush ==
  /\ pc = "loaded"
  /\ pc' = "pushed"
  /\ IF call.ret["history"] = "object"
     THEN /\ history' = push_history(history, KPoly, 500, now)
          /\ pushed' = NotePush(pushed, KPoly, 500, now)
          /\ call' = [call EXCEPT !.fn = "push_history"]
     ELSE /\ call' = [call EXCEPT !.fn = "raise"]
          /\ UNCHANGED <<history, pushed>>
  /\ UNCHANGED <<now, enabled, files, saves, last_recap_day, recaps, kscan, cooldowns,
                 positions, first_seen, alerts_log, kalshi_last_scan_ts, kalshi_snapshot,
                 last_sent, tick, alert_ts, feed, WS_STATE, WS_LAST_TS, ws_iter, written,
                 visited>>

NextLoad == LoadState \/ LoadedPush

SpecLoad == InitLoad /\ [][NextLoad]_vars

\* C19: for every content of the snapshot file load_state returns a state
\* whose history, cooldowns, positions and first_seen are mappings and whose
\* alerts_log is a list, so that the scan loop's first push does not raise;
\* for a missing or corrupt file the state is the empty one.
C19_ColdStart ==
  /\ call.fn = "load_state" =>
       /\ \A f \in LoadFields \ {"last_slugs"} : call.ret[f] = DefaultType(f)
       /\ call.file.kind # "object" => call.ret = EmptyLoaded
  /\ call.fn # "raise"

\* what the code guarantees: the empty state for a missing file, a file that
\* is not JSON, a JSON list, and an object whose last_slugs is null; no raise
\* inside load_state itself
C19_AsCoded ==
  call.fn = "load_state" =>
    /\ (call.file.kind # "object" => call.ret = EmptyLoaded)
    /\ (call.file.obj["last_slugs"] = "null" => call.ret = EmptyLoaded)
    /\ \A f \in LoadFields :
         call.file.obj[f] \in {"absent", "good"} => call.ret[f] = DefaultType(f)

(***************************************************************************)
(* The WebSocket listener thread beside the scan loop                      *)
(***************************************************************************)
MaxWsCycles == 1

\* a JSON object of the sports feed: a field that is absent, or a slug that
\* is not a string, is None
WsObjects ==
  [leagueAbbreviation : {"CBB", "NFL"},
   slug : {None, << "cbb-g1" >>, << "cbb-g2" >>},
   live : {None, << TRUE >>},
   period : {None, << "2H" >>}]

NoObj == [leagueAbbreviation |-> "", slug |-> None, live |-> None, period |-> None]

\* the frames the listener can receive: the keep-alive text, a text that is
\* not JSON, a JSON array, a JSON object
WsMessages ==
  {[kind |-> k, obj |-> NoObj] : k \in {"ping", "garbage", "array"}}
    \cup {[kind |-> "object", obj |-> o] : o \in WsObjects}

\* the entry of a slug after a message for it: the new fields laid over the
\* old entry
ws_on_message_merge(ws_state, ws_last_ts, message, t) ==
  LET obj == message.obj
      old == Get(ws_state, obj.slug[1], NoObj)
      merged == [obj EXCEPT !.live = IF obj.live = None THEN old.live ELSE obj.live,
                            !.period = IF obj.period = None THEN old.period
                                       ELSE obj.period]
  IN
  IF message.kind # "object" \/ obj.slug = None
       \/ Lower(obj.leagueAbbreviation) \notin {"cbb", "nba"}
  THEN [WS_STATE |-> ws_state, WS_LAST_TS |-> ws_last_ts]
  ELSE [WS_STATE |-> [s \in DOMAIN ws_state \cup {obj.slug[1]} |->
                        IF s = obj.slug[1] THEN merged ELSE ws_state[s]],
        WS_LAST_TS |-> << t >>]

\* ws_on_message: the side channel after one frame
ws_on_message(ws_state, ws_last_ts, message, t) ==
  LET obj == message.obj
      unchanged == [WS_STATE |-> ws_state, WS_LAST_TS |-> ws_last_ts]
  IN
  IF message.kind = "ping" THEN unchanged
  ELSE IF message.kind = "garbage" THEN unchanged
  \* obj.get of a value that is no object raises inside the callback
  ELSE IF message.kind = "array" THEN unchanged
  ELSE IF obj.slug = None THEN unchanged
  ELSE IF Lower(obj.leagueAbbreviation) \notin {"cbb", "nba"} THEN unchanged
  ELSE [WS_STATE |-> [s \in DOMAIN ws_state \cup {obj.slug[1]} |->
                        IF s = obj.slug[1] THEN obj ELSE ws_state[s]],
        WS_LAST_TS |-> << t >>]

InitWs ==
  /\ FreshState
  /\ now = StartTs
  /\ enabled = [ENABLE_POLY_SPORTS |-> TRUE, ENABLE_KALSHI |-> FALSE]
  /\ pc = "poly"

\* the listener thread: one frame, at any position of the scan loop
WsOnMessage ==
  /\ \E message \in WsMessages :
       LET after == ws_on_message(WS_STATE, WS_LAST_TS, message, now) IN
       /\ WS_STATE' = after.WS_STATE
       /\ WS_LAST_TS' = after.WS_LAST_TS
       /\ call' = [fn |-> "ws_on_message", message |-> message, t |-> now]
  /\ UNCHANGED <<now, enabled, files, saves, last_recap_day, recaps, kscan, pc, history,
                 cooldowns, positions, first_seen, alerts_log, kalshi_last_scan_ts,
                 kalshi_snapshot, last_sent, tick, alert_ts, pushed, feed, visited,
                 ws_iter, written>>

\* the scan loop reads the slug's entry of the side channel into is_live
WsRead ==
  /\ pc = "poly"
  /\ LET ws == Get(WS_STATE, "cbb-g1", NoObj)
         is_live == ws.live = << TRUE >>
     IN pc' = IF is_live THEN "live" ELSE "pregame"
  /\ UNCHANGED <<now, enabled, files, saves, last_recap_day, recaps, kscan, history,
                 cooldowns, positions, first_seen, alerts_log, kalshi_last_scan_ts,
                 kalshi_snapshot, last_sent, tick, alert_ts, call, pushed, feed, WS_STATE,
                 WS_LAST_TS, ws_iter, written, visited>>

\* ... and works on the slug's outcome with the is_live it has read
WsOutcome ==
  /\ pc \in {"live", "pregame"}
  /\ pc' = "save"
  /\ \E mid \in {500, 550} :
       PolyOutcome("CBB", "cbb-g1", "Duke", pc = "live", mid, 3000, None)
  /\ UNCHANGED <<now, enabled, files, saves, last_recap_day, recaps, kscan,
                 kalshi_last_scan_ts, kalshi_snapshot, last_sent, call, feed, WS_STATE,
                 WS_LAST_TS, ws_iter, written, visited>>

WsSleep ==
  /\ pc = "save"
  /\ now + SCAN_SEC <= StartTs + MaxWsCycles * SCAN_SEC
  /\ pc' = "poly"
  /\ now' = now + SCAN_SEC
  /\ UNCHANGED <<enabled, files, saves, last_recap_day, recaps, kscan, history, cooldowns,
                 positions, first_seen, alerts_log, kalshi_last_scan_ts, kalshi_snapshot,
                 last_sent, tick, alert_ts, call, pushed, feed, WS_STATE, WS_LAST_TS,
                 ws_iter, written, visited>>

NextWs == WsOnMessage \/ WsRead \/ WsOutcome \/ WsSleep

SpecWs == InitWs /\ [][NextWs]_vars

\* a step of the listener thread: every entry of the side channel after it is
\* the entry from before, or the whole object of the frame under the frame's
\* slug; WS_LAST_TS is the old value or the time of the frame; history,
\* cooldowns, positions, first_seen and alerts_log are as before
C20_ListenerStep ==
  call' # call =>
    /\ call'.fn = "ws_on_message"
    /\ UNCHANGED <<history, cooldowns, positions, first_seen, alerts_log>>
    /\ DOMAIN WS_STATE \subseteq DOMAIN WS_STATE'
    /\ \A s \in DOMAIN WS_STATE' :
         \/ s \in DOMAIN WS_STATE /\ WS_STATE'[s] = WS_STATE[s]
         \/ call'.message.obj.slug = << s >> /\ WS_STATE'[s] = call'.message.obj
    /\ WS_LAST_TS' \in {WS_LAST_TS, << now >>}
    /\ (WS_STATE' # WS_STATE => WS_LAST_TS' = << now >>)

\* a step that changes history, cooldowns, positions, first_seen or alerts_log
\* is a step of the scan loop, and no step of the scan loop writes the side
\* channel
C20_ScanStep ==
  /\ <<history, cooldowns, positions, first_seen, alerts_log>>'
       # <<history, cooldowns, positions, first_seen, alerts_log>>
     => pc \in {"live", "pregame"} /\ pc' = "save" /\ call' = call
  /\ pc' # pc => UNCHANGED <<WS_STATE, WS_LAST_TS>>

\* C20: single writer. Under every interleaving of the listener thread with
\* the scan loop, ws_on_message writes only WS_STATE[slug], replaced as a
\* whole, and WS_LAST_TS, and leaves history, cooldowns, positions,
\* first_seen and alerts_log unchanged; these change only in the scan loop.
C20_SingleWriter == [][C20_ListenerStep /\ C20_ScanStep]_vars

\* C20 witness: the scan loop has read the slug as live and is working on
\* its outcome with earlier observations in the history, when a later frame
\* without the live field has replaced the slug's entry
C20_Witness ==
  /\ pc = "live"
  /\ history # EmptyMap
  /\ call.fn = "ws_on_message"
  /\ call.t = now
  /\ "cbb-g1" \in DOMAIN WS_STATE
  /\ WS_STATE["cbb-g1"] = call.message.obj
  /\ WS_STATE["cbb-g1"].live = None
  /\ WS_LAST_TS = << now >>

(***************************************************************************)
(* The scan loop's reads of the side channel under listener writes         *)
(***************************************************************************)
MaxLkCycles == 1

\* the frames of this exploration: the keep-alive and objects of two slugs
LkMessages ==
  {m \in WsMessages :
     \/ m.kind = "ping"
     \/ /\ m.kind = "object"
        /\ m.obj.leagueAbbreviation = "CBB"
        /\ m.obj.slug # None
        /\ m.obj.period = None}

LkPrefixes == << "cbb-", "nba-" >>

\* s.lower().startswith(slug_prefix), on the slugs of the exploration
StartsWith(s, slug_prefix) ==
  \/ slug_prefix = "cbb-" /\ Lower(s) \in {"cbb-g1", "cbb-g2"}
  \/ slug_prefix = "nba-" /\ Lower(s) \in {"nba-g9"}

\* the dict iterator of WS_STATE.keys(): the size of the dict when the
\* iterator was made, the keys handed out, the ones kept by the filter
NewIter(n, ws_state) ==
  << [n |-> n, used |-> Cardinality(DOMAIN ws_state), seen |-> {}, slugs |-> {}] >>

\* the next step of the iterator: "raise" when the dict has another size than
\* at the start (RuntimeError: dictionary changed size during iteration),
\* "stop" when every key has been handed out, else "key"
iter_next(it, ws_state) ==
  IF Cardinality(DOMAIN ws_state) # it.used THEN "raise"
  ELSE IF DOMAIN ws_state \subseteq it.seen THEN "stop"
  ELSE "key"

InitLk ==
  /\ FreshState
  /\ now = StartTs
  /\ enabled = [ENABLE_POLY_SPORTS |-> TRUE, ENABLE_KALSHI |-> FALSE]
  /\ pc = "poly"

\* the listener thread: one frame, at any position of the scan loop
LkOnMessage ==
  /\ \E message \in LkMessages :
       LET after == ws_on_message(WS_STATE, WS_LAST_TS, message, now) IN
       /\ WS_STATE' = after.WS_STATE
       /\ WS_LAST_TS' = after.WS_LAST_TS
       /\ written' = written \cup {after.WS_STATE[s] : s \in DOMAIN after.WS_STATE}
  /\ UNCHANGED <<now, enabled, files, saves, last_recap_day, recaps, kscan, pc, history,
                 cooldowns, positions, first_seen, alerts_log, kalshi_last_scan_ts,
                 kalshi_snapshot, last_sent, tick, alert_ts, call, pushed, feed, visited,
                 ws_iter>>

\* merge_ws_slugs of the first league: the comprehension makes its iterator
LkMergeStart ==
  /\ pc = "poly"
  /\ pc' = "iter"
  /\ ws_iter' = NewIter(1, WS_STATE)
  /\ UNCHANGED <<now, enabled, files, saves, last_recap_day, recaps, kscan, history,
                 cooldowns, positions, first_seen, alerts_log, kalshi_last_scan_ts,
                 kalshi_snapshot, last_sent, tick, alert_ts, call, pushed, feed, WS_STATE,
                 WS_LAST_TS, written, visited>>

\* one step of the comprehension; at the end of the first league's merge the
\* second league's begins, at the end of the second the slug loop
LkMergeNext ==
  /\ pc = "iter"
  /\ LET it == ws_iter[1]
         step == iter_next(it, WS_STATE)
     IN
     CASE step = "raise" ->
            /\ pc' = "recover"
            /\ ws_iter' = None
       [] step = "stop" ->
            IF it.n = 1
            THEN /\ pc' = "iter"
                 /\ ws_iter' = << [NewIter(2, WS_STATE)[1] EXCEPT !.slugs = it.slugs] >>
            ELSE /\ pc' = "lookup"
                 /\ ws_iter' = << [it EXCEPT !.seen = {}] >>
       [] step = "key" ->
            \E s \in DOMAIN WS_STATE \ it.seen :
              /\ pc' = "iter"
              /\ ws_iter' = << [it EXCEPT
                                  !.seen = @ \cup {s},
                                  !.slugs = IF StartsWith(s, LkPrefixes[it.n])
                                            THEN @ \cup {s} ELSE @] >>
  /\ UNCHANGED <<now, enabled, files, saves, last_recap_day, recaps, kscan, history,
                 cooldowns, positions, first_seen, alerts_log, kalshi_last_scan_ts,
                 kalshi_snapshot, last_sent, tick, alert_ts, call, pushed, feed, WS_STATE,
                 WS_LAST_TS, written, visited>>

\* the slug loop: WS_STATE.get(slug) for the next slug of the merged list
LkLookup ==
  /\ pc = "lookup"
  /\ LET slugs == {"cbb-g1"} \cup ws_iter[1].slugs IN
     IF slugs \subseteq visited
     THEN /\ pc' = "save"
          /\ UNCHANGED <<call, visited>>
     ELSE \E slug \in slugs \ visited :
            /\ pc' = "lookup"
            /\ visited' = visited \cup {slug}
            /\ call' = [fn |-> "get", slug |-> slug,
                        ret |-> IF slug \in DOMAIN WS_STATE THEN << WS_STATE[slug] >>
                                ELSE None]
  /\ UNCHANGED <<now, enabled, files, saves, last_recap_day, recaps, kscan, history,
                 cooldowns, positions, first_seen, alerts_log, kalshi_last_scan_ts,
                 kalshi_snapshot, last_sent, tick, alert_ts, pushed, feed, WS_STATE,
                 WS_LAST_TS, ws_iter, written>>

\* save_state and the sleep of a cycle that came through
LkSleep ==
  /\ pc = "save"
  /\ now + SCAN_SEC <= StartTs + MaxLkCycles * SCAN_SEC
  /\ pc' = "poly"
  /\ now' = now + SCAN_SEC
  /\ visited' = {}
  /\ ws_iter' = None
  /\ UNCHANGED <<enabled, files, saves, last_recap_day, recaps, kscan, history, cooldowns,
                 positions, first_seen, alerts_log, kalshi_last_scan_ts, kalshi_snapshot,
                 last_sent, tick, alert_ts, call, pushed, feed, WS_STATE, WS_LAST_TS,
                 written>>

\* the top-level handler of a cycle that raised
LkRecover ==
  /\ pc = "recover"
  /\ now + RECOVER_SLEEP <= StartTs + MaxLkCycles * SCAN_SEC
  /\ pc' = "poly"
  /\ now' = now + RECOVER_SLEEP
  /\ visited' = {}
  /\ UNCHANGED <<enabled, files, saves, last_recap_day, recaps, kscan, history, cooldowns,
                 positions, first_seen, alerts_log, kalshi_last_scan_ts, kalshi_snapshot,
                 last_sent, tick, alert_ts, call, pushed, feed, WS_STATE, WS_LAST_TS,
                 ws_iter, written>>

NextLk == LkOnMessage \/ LkMergeStart \/ LkMergeNext \/ LkLookup \/ LkSleep \/ LkRecover

SpecLk == InitLk /\ [][NextLk]_vars

\* every lookup yields absence or one whole object the listener stored
\* earlier under that slug
C21_ReadsWhole ==
  call.fn = "get" =>
    \/ call.ret = None
    \/ call.ret[1] \in written /\ call.ret[1].slug = << call.slug >>

\* C21: lock-free side channel. For every interleaving of listener writes
\* with the scan loop's lookup of a slug and its iteration over the keys of
\* WS_STATE, each read yields absence or one complete message written
\* earlier for that slug, and the scan cycle never fails.
C21_LockFree ==
  /\ C21_ReadsWhole
  /\ pc # "recover"

\* the lookup that returns a stored object is reached
ReachLkRead ==
  call.fn = "get" /\ call.ret # None

(***************************************************************************)
(* The alert classes of one key before the game                            *)
(***************************************************************************)
MaxClsTicks == 5

ClsPrices == {450, 500, 550}

InitCls ==
  /\ FreshState
  /\ now = StartTs
  /\ enabled = [ENABLE_POLY_SPORTS |-> TRUE, ENABLE_KALSHI |-> FALSE]
  /\ pc = "cls"

\* one cycle before the game: the outcome body, then save and sleep
ClsTick ==
  /\ pc = "cls"
  /\ Pushes < MaxClsTicks
  /\ \E mid \in ClsPrices :
       PolyOutcome("CBB", "cbb-g1", "Duke", FALSE, mid, 3000, None)
  /\ now' = now + SCAN_SEC
  /\ UNCHANGED <<enabled, files, saves, last_recap_day, recaps, kscan, pc,
                 kalshi_last_scan_ts, kalshi_snapshot, last_sent, call, feed, WS_STATE,
                 WS_LAST_TS, ws_iter, written, visited>>

NextCls == ClsTick

SpecCls == InitCls /\ [][NextCls]_vars

\* the record of a class permits an alert at time t
ClassOpen(cds, ck, t) == t - Get(cds, ck, 0) >= LEAGUE_CFG.CBB.pregame_cooldown

\* a tick that evaluated signals: each of the three classes fires exactly when
\* its own trigger qualified and its own record was open before the tick; a
\* class that fired has its record at the tick's time, every other record is
\* as before
C22_Tick ==
  tick'.evaluated =>
    LET cfg == LEAGUE_CFG.CBB
        mid == tick'.price
        qualified ==
          (IF opening_scout_signal(first_seen', KPoly, mid, cfg.pregame_big_move,
                                   cfg.opening_scout_minutes, now) # None
           THEN {KPoly \o "|SCOUT_OPEN"} ELSE {})
          \cup (IF pregame_big_move_signal(history', KPoly, cfg.min_snaps,
                                           cfg.pregame_big_move) # None
                THEN {KPoly \o "|SCOUT_MOM"} ELSE {})
          \cup (IF Abs(mid - prev_price(history', KPoly)[1]) >= cfg.min_move
                THEN {KPoly \o "|PREGAME"} ELSE {})
    IN
    /\ tick'.fired = {ck \in qualified : ClassOpen(cooldowns, ck, now)}
    /\ DOMAIN cooldowns' = DOMAIN cooldowns \cup tick'.fired
    /\ \A ck \in DOMAIN cooldowns' :
         cooldowns'[ck] = IF ck \in tick'.fired THEN now ELSE cooldowns[ck]

\* C22: independent alert classes. Acquiring the cooldown of one class of a
\* key leaves the records of the key's other classes unchanged, so the
\* opening-scout, momentum-scout and displacement alerts of one key can each
\* fire in the same tick and none blocks another.
C22_IndependentClasses == [][C22_Tick]_vars

\* C22 witness: a tick in which the three classes of the key fired together
C22_Witness ==
  /\ tick.evaluated
  /\ tick.fired = {KPoly \o "|SCOUT_OPEN", KPoly \o "|SCOUT_MOM", KPoly \o "|PREGAME"}
  /\ \A ck \in tick.fired : cooldowns[ck] = tick.t

\* a tick in which one class fired while the record of another blocked
ReachClsPartial ==
  /\ tick.evaluated
  /\ (KPoly \o "|SCOUT_OPEN") \in tick.fired
  /\ (KPoly \o "|PREGAME") \notin tick.fired
  /\ (KPoly \o "|PREGAME") \in DOMAIN cooldowns
  /\ tick.t - cooldowns[KPoly \o "|PREGAME"] < LEAGUE_CFG.CBB.pregame_cooldown

(***************************************************************************)
(* log_alert over a long run of alerts                                     *)
(***************************************************************************)
MaxLogCalls == 2502

\* the kinds of the alerts logged, repeated in turn
LogFeeds == { << "ENTRY" >>, << "SCOUT", "ENTRY", "UPDATE" >> }

\* the alerts a run starts with: none, or the log an earlier run of 2495
\* alerts has saved
LogStarts == {0, ALERTS_MAX - 5}

\* the calls made so far: one per second
LogCalls == now - StartTs

\* the i-th alert of the run
LogEntry(i) ==
  [ts |-> StartTs + i - 1, source |-> "POLY", league |-> "CBB", ident |-> "cbb-g1",
   outcome |-> "Duke", price |-> 500 + (i % 7) * 10, conf |-> 5000,
   kind |-> feed[((i - 1) % Len(feed)) + 1], reason |-> "displacement"]

InitLog ==
  /\ feed \in LogFeeds
  /\ \E n \in LogStarts :
       /\ now = StartTs + n
       /\ alerts_log = [i \in 1..n |-> LogEntry(i)]
  /\ enabled \in {d \in Deployments : d.ENABLE_POLY_SPORTS}
  /\ pc = "log"
  /\ history = EmptyMap
  /\ cooldowns = EmptyMap
  /\ positions = EmptyMap
  /\ first_seen = EmptyMap
  /\ kalshi_last_scan_ts = 0
  /\ kalshi_snapshot = EmptyMap
  /\ last_sent = EmptyMap
  /\ tick = NoTick
  /\ alert_ts = EmptyMap
  /\ call = NoCall
  /\ pushed = EmptyMap
  /\ WS_STATE = EmptyMap
  /\ WS_LAST_TS = None
  /\ visited = {}
  /\ ws_iter = None
  /\ written = {}
  /\ files = EmptyMap
  /\ saves = {}
  /\ last_recap_day = None
  /\ recaps = << >>
  /\ kscan = None

LogAlertCall ==
  /\ pc = "log"
  /\ LogCalls < MaxLogCalls
  /\ LET e == LogEntry(LogCalls + 1) IN
     alerts_log' = log_alert(alerts_log, now, e.source, e.league, e.ident, e.outcome,
                             e.price, e.conf, e.kind, e.reason)
  /\ now' = now + 1
  /\ UNCHANGED <<enabled, files, saves, last_recap_day, recaps, kscan, pc, history,
                 cooldowns, positions, first_seen, kalshi_last_scan_ts, kalshi_snapshot,
                 last_sent, tick, alert_ts, call, pushed, feed, WS_STATE, WS_LAST_TS,
                 ws_iter, written, visited>>

NextLog == LogAlertCall

SpecLog == InitLog /\ [][NextLog]_vars

\* C24: the alert log is bounded and oldest-trimmed. After any sequence of
\* log_alert calls alerts_log holds at most 2500 entries, and they are the
\* most recent alerts logged, in the order they were logged.
C24_AlertLogBound ==
  /\ Len(alerts_log) <= 2500
  /\ Len(alerts_log) <= LogCalls
  /\ \A j \in 1..Len(alerts_log) :
       alerts_log[j] = LogEntry(LogCalls - Len(alerts_log) + j)

\* C24 witness: the log after the trim, its first entry the 502nd alert
C24_Witness ==
  /\ LogCalls = 2501
  /\ Len(alerts_log) = 2000
  /\ alerts_log[1] = LogEntry(502)
  /\ alerts_log[2000] = LogEntry(2501)

\* the log at its largest
ReachLogFull == LogCalls = 2500 /\ Len(alerts_log) = 2500

(***************************************************************************)
(* poly_confidence and kalshi_confidence as functions                      *)
(***************************************************************************)
\* moves of a price in [0, 1]
ConfMoves == {-100, -30, 0, 20, 60, 100}

ConfLiquidities == {0, 2500, 4000, 8000, 15000}

\* spreads in cents, or no quote on one side
ConfSpreads == {None, << 1000 >>, << 2000 >>, << 4000 >>, << 6000 >>, << 8000 >>}

\* moves of a price in cents
ConfMovesC == {-8000, -2000, 0, 3000, 6000, 40000}

ConfVolumes == {0, 5000, 10000, 20000, 50000}

PolyArgs ==
  [league : {"CBB", "NBA"}, move : ConfMoves, liquidity : ConfLiquidities,
   spread_c : ConfSpreads, is_live : BOOLEAN]

KalshiArgs == [move_snaps_c : ConfMovesC, volume : ConfVolumes]

InitConf ==
  /\ FreshState
  /\ now = StartTs
  /\ enabled = [ENABLE_POLY_SPORTS |-> TRUE, ENABLE_KALSHI |-> TRUE]
  /\ pc = "conf"

\* one call; n tells a call from the one before it
PolyConfidenceCall ==
  /\ pc = "conf"
  /\ \E a \in PolyArgs :
       call' = [fn |-> "poly_confidence", args |-> a, n |-> 1 - Get(call, "n", 0),
                ret |-> poly_confidence(a.league, a.move, a.liquidity, a.spread_c,
                                        a.is_live)]
  /\ UNCHANGED <<now, enabled, files, saves, last_recap_day, recaps, kscan, pc, history,
                 cooldowns, positions, first_seen, alerts_log, kalshi_last_scan_ts,
                 kalshi_snapshot, last_sent, tick, alert_ts, pushed, feed, WS_STATE,
                 WS_LAST_TS, ws_iter, written, visited>>

KalshiConfidenceCall ==
  /\ pc = "conf"
  /\ \E a \in KalshiArgs :
       call' = [fn |-> "kalshi_confidence", args |-> a, n |-> 1 - Get(call, "n", 0),
                ret |-> kalshi_confidence(a.move_snaps_c, a.volume)]
  /\ UNCHANGED <<now, enabled, files, saves, last_recap_day, recaps, kscan, pc, history,
                 cooldowns, positions, first_seen, alerts_log, kalshi_last_scan_ts,
                 kalshi_snapshot, last_sent, tick, alert_ts, pushed, feed, WS_STATE,
                 WS_LAST_TS, ws_iter, written, visited>>

NextConf == PolyConfidenceCall \/ KalshiConfidenceCall

SpecConf == InitConf /\ [][NextConf]_vars

ConfCall == call.fn \in {"poly_confidence", "kalshi_confidence"}

\* the result of a call lies in [1, 10]
C25_InRange == ConfCall => (1000 <= call.ret /\ call.ret <= 10000)

\* a call with the arguments of the call before it returns the same value
C25_SameAgain ==
  (ConfCall /\ call'.fn = call.fn /\ call'.args = call.args) => call'.ret = call.ret

\* C25: poly_confidence and kalshi_confidence return a value in [1, 10] for
\* every input (any move, any liquidity or volume, any spread or none, live
\* or not, any league) and are deterministic functions of their arguments.
C25_ConfidenceRange == [](C25_InRange) /\ [][C25_SameAgain]_vars

\* C25 witness: a call whose sum of terms passes 10 and returns 10, made
\* again with the same arguments
C25_Witness ==
  /\ call.fn = "poly_confidence"
  /\ call.n = 0
  /\ call.args = [league |-> "NBA", move |-> -100, liquidity |-> 15000,
                  spread_c |-> << 1000 >>, is_live |-> TRUE]
  /\ call.ret = 10000

\* the lowest and the highest result of kalshi_confidence
ReachKalshiConfLow == call.fn = "kalshi_confidence" /\ call.ret = 4500

ReachKalshiConfHigh == call.fn = "kalshi_confidence" /\ call.ret = 9000

\* poly_confidence on an argument record
PolyConfOf(a) == poly_confidence(a.league, a.move, a.liquidity, a.spread_c, a.is_live)

\* C26: poly_confidence is monotone. With the other arguments fixed it is
\* non-decreasing in abs(move), non-decreasing in liquidity, non-increasing in
\* spread_c over present spreads, and never lower for is_live = true than for
\* is_live = false.
C26_ConfidenceMonotone ==
  call.fn = "poly_confidence" =>
    LET a == call.args IN
    /\ \A m \in ConfMoves :
         Abs(m) >= Abs(a.move) => PolyConfOf([a EXCEPT !.move = m]) >= call.ret
    /\ \A l \in ConfLiquidities :
         l >= a.liquidity => PolyConfOf([a EXCEPT !.liquidity = l]) >= call.ret
    /\ \A sp \in ConfSpreads \ {None} :
         (a.spread_c # None /\ sp[1] >= a.spread_c[1])
           => PolyConfOf([a EXCEPT !.spread_c = sp]) <= call.ret
    /\ PolyConfOf([a EXCEPT !.is_live = TRUE]) >= call.ret
    /\ PolyConfOf([a EXCEPT !.is_live = FALSE]) <= call.ret

\* C26 witness: a call in the middle of every scale, so that each of the four
\* comparisons has a strictly different neighbour
C26_Witness ==
  /\ call.fn = "poly_confidence"
  /\ call.args = [league |-> "CBB", move |-> 20, liquidity |-> 4000,
                  spread_c |-> << 4000 >>, is_live |-> FALSE]
  /\ call.ret = 6500
  /\ PolyConfOf([call.args EXCEPT !.move = -30]) > call.ret
  /\ PolyConfOf([call.args EXCEPT !.liquidity = 8000]) > call.ret
  /\ PolyConfOf([call.args EXCEPT !.spread_c = << 8000 >>]) < call.ret
  /\ PolyConfOf([call.args EXCEPT !.is_live = TRUE]) > call.ret

(***************************************************************************)
(* The reads of the history: prev_price and price_over_snaps               *)
(***************************************************************************)
MaxReadPushes == 4

ReadKeys == {KPoly, KKalshi}

ReadPrices == {500, 520}

\* window lengths asked for; the callers pass min_snaps, a count of at least 1
ReadSnaps == 1..(MaxReadPushes + 1)

InitRead ==
  /\ FreshState
  /\ now = StartTs
  /\ enabled = [ENABLE_POLY_SPORTS |-> TRUE, ENABLE_KALSHI |-> TRUE]
  /\ pc = "read"

\* one observation of a key, one cycle later
ReadPush ==
  /\ pc = "read"
  /\ Pushes < MaxReadPushes
  /\ \E key \in ReadKeys, price \in ReadPrices :
       /\ history' = push_history(history, key, price + (Pushes * 10), now)
       /\ pushed' = NotePush(pushed, key, price + (Pushes * 10), now)
  /\ now' = now + SCAN_SEC
  /\ UNCHANGED <<enabled, files, saves, last_recap_day, recaps, kscan, pc, cooldowns,
                 positions, first_seen, alerts_log, kalshi_last_scan_ts, kalshi_snapshot,
                 last_sent, tick, alert_ts, call, feed, WS_STATE, WS_LAST_TS, ws_iter,
                 written, visited>>

PrevPriceCall ==
  /\ pc = "read"
  /\ \E key \in ReadKeys :
       call' = [fn |-> "prev_price", key |-> key, snaps |-> 2, t |-> now,
                ret |-> prev_price(history, key)]
  /\ UNCHANGED <<now, enabled, files, saves, last_recap_day, recaps, kscan, pc, history,
                 cooldowns, positions, first_seen, alerts_log, kalshi_last_scan_ts,
                 kalshi_snapshot, last_sent, tick, alert_ts, pushed, feed, WS_STATE,
                 WS_LAST_TS, ws_iter, written, visited>>

PriceOverSnapsCall ==
  /\ pc = "read"
  /\ \E key \in ReadKeys, snaps \in ReadSnaps :
       call' = [fn |-> "price_over_snaps", key |-> key, snaps |-> snaps, t |-> now,
                ret |-> price_over_snaps(history, key, snaps)]
  /\ UNCHANGED <<now, enabled, files, saves, last_recap_day, recaps, kscan, pc, history,
                 cooldowns, positions, first_seen, alerts_log, kalshi_last_scan_ts,
                 kalshi_snapshot, last_sent, tick, alert_ts, pushed, feed, WS_STATE,
                 WS_LAST_TS, ws_iter, written, visited>>

NextRead == ReadPush \/ PrevPriceCall \/ PriceOverSnapsCall

SpecRead == InitRead /\ [][NextRead]_vars

\* the observations of a key so far, oldest first
Observed(key) == Get(pushed, key, << >>)

\* a read, measured on the observations made: its result is absent below the
\* number of observations asked for, else the price that many observations
\* back (with the newest price beside it for price_over_snaps); the history
\* is as it was
C27_Read ==
  call' # call =>
    LET o == Observed(call'.key)
        n == Len(o)
    IN
    /\ call'.fn = "prev_price" =>
         call'.ret = IF n < 2 THEN None ELSE << o[n - 1].p >>
    /\ call'.fn = "price_over_snaps" =>
         call'.ret = IF n < call'.snaps THEN None
                     ELSE << o[n - call'.snaps + 1].p, o[n].p >>
    /\ history' = history

\* C27: history reads. prev_price(key) returns the price of the
\* second-most-recent observation and None when the key has fewer than 2
\* observations; price_over_snaps(key, n) returns (price of the n-th most
\* recent observation, price of the newest) and None when the key has fewer
\* than n observations; neither read changes the history.
C27_HistoryReads == [][C27_Read]_vars

\* C27 witness: a window of 3 over a key with 4 observations, whose oldest
\* observation is outside the window
C27_Witness ==
  /\ call.fn = "price_over_snaps"
  /\ call.snaps = 3
  /\ call.t = now
  /\ Len(Observed(call.key)) = 4
  /\ call.ret # None
  /\ call.ret[1] = Observed(call.key)[2].p
  /\ call.ret[1] # Observed(call.key)[1].p
  /\ call.ret[2] = Observed(call.key)[4].p

\* a prev_price of a key with one observation, and of one with three
ReachPrevNone ==
  call.fn = "prev_price" /\ call.t = now /\ Len(Observed(call.key)) = 1 /\ call.ret = None

ReachPrevThree ==
  /\ call.fn = "prev_price"
  /\ call.t = now
  /\ Len(Observed(call.key)) = 3
  /\ call.ret = << Observed(call.key)[2].p >>

(***************************************************************************)
(* The opening signal of one key over more cycles than its opening window  *)
(***************************************************************************)
MaxOpenTicks == 3

\* cycles of the run: one more than the opening window holds
OpenCycles == (LEAGUE_CFG.CBB.opening_scout_minutes * 60) \div SCAN_SEC + 1

OpenPrices == {450, 500, 550}

InitOpen ==
  /\ FreshState
  /\ now = StartTs
  /\ enabled = [ENABLE_POLY_SPORTS |-> TRUE, ENABLE_KALSHI |-> FALSE]
  /\ pc = "open"

\* one cycle before the game with the market listed
OpenTick ==
  /\ pc = "open"
  /\ Pushes < MaxOpenTicks
  /\ now <= StartTs + OpenCycles * SCAN_SEC
  /\ \E mid \in OpenPrices :
       PolyOutcome("CBB", "cbb-g1", "Duke", FALSE, mid, 3000, None)
  /\ now' = now + SCAN_SEC
  /\ UNCHANGED <<enabled, files, saves, last_recap_day, recaps, kscan, pc,
                 kalshi_last_scan_ts, kalshi_snapshot, last_sent, call, feed, WS_STATE,
                 WS_LAST_TS, ws_iter, written, visited>>

\* one cycle without the market: save and sleep only
OpenIdle ==
  /\ pc = "open"
  /\ now < StartTs + OpenCycles * SCAN_SEC
  /\ now' = now + SCAN_SEC
  /\ UNCHANGED <<enabled, files, saves, last_recap_day, recaps, kscan, pc, history,
                 cooldowns, positions, first_seen, alerts_log, kalshi_last_scan_ts,
                 kalshi_snapshot, last_sent, tick, alert_ts, call, pushed, feed, WS_STATE,
                 WS_LAST_TS, ws_iter, written, visited>>

\* a direct call on the state the loop has built, which ends the run
OpeningScoutSignalCall ==
  /\ pc = "open"
  /\ pc' = "called"
  /\ \E key \in {KPoly}, price_now \in OpenPrices :
       call' = [fn |-> "opening_scout_signal", key |-> key, price_now |-> price_now,
                t |-> now,
                ret |-> opening_scout_signal(first_seen, key, price_now,
                                             LEAGUE_CFG.CBB.pregame_big_move,
                                             LEAGUE_CFG.CBB.opening_scout_minutes, now)]
  /\ UNCHANGED <<now, enabled, files, saves, last_recap_day, recaps, kscan, history,
                 cooldowns, positions, first_seen, alerts_log, kalshi_last_scan_ts,
                 kalshi_snapshot, last_sent, tick, alert_ts, pushed, feed, WS_STATE,
                 WS_LAST_TS, ws_iter, written, visited>>

NextOpen == OpenTick \/ OpenIdle \/ OpeningScoutSignalCall

SpecOpen == InitOpen /\ [][NextOpen]_vars

\* seconds since the key was first seen
SinceFirstSeen(fs, key, t) == t - fs[key].ts

\* a first-seen record, once written, stays as it is
C28_WrittenOnce ==
  \A k \in DOMAIN first_seen : k \in DOMAIN first_seen' /\ first_seen'[k] = first_seen[k]

\* a call returns the signed move from the first-seen price exactly when the
\* move reaches the threshold within the opening window, else nothing
C28_Signal ==
  (call' # call /\ call'.key \in DOMAIN first_seen) =>
    LET mv == call'.price_now - first_seen[call'.key].p
        within == SinceFirstSeen(first_seen, call'.key, now)
                    <= LEAGUE_CFG.CBB.opening_scout_minutes * 60
    IN  call'.ret = IF Abs(mv) >= LEAGUE_CFG.CBB.pregame_big_move /\ within
                    THEN << mv >> ELSE None

\* a tick fires the opening-scout alert only inside the opening window
C28_NoLateAlert ==
  (tick' # tick /\ (KPoly \o "|SCOUT_OPEN") \in tick'.fired) =>
    /\ SinceFirstSeen(first_seen', KPoly, now) <= LEAGUE_CFG.CBB.opening_scout_minutes * 60
    /\ Abs(tick'.price - first_seen'[KPoly].p) >= LEAGUE_CFG.CBB.pregame_big_move

\* C28: opening signal. The first-seen record of a key is written once and
\* never changed; opening_scout_signal returns the signed move
\* price_now - first_seen_price iff abs(move) >= threshold and the time since
\* first seen is within the opening window; no opening-scout alert fires for
\* a key after its opening window has passed.
C28_OpeningSignal == [][C28_WrittenOnce /\ C28_Signal /\ C28_NoLateAlert]_vars

\* C28 witness: a tick after the opening window with a move from the
\* first-seen price over the threshold, and no opening-scout alert
C28_Witness ==
  /\ tick.evaluated
  /\ KPoly \in DOMAIN first_seen
  /\ SinceFirstSeen(first_seen, KPoly, tick.t) > LEAGUE_CFG.CBB.opening_scout_minutes * 60
  /\ Abs(tick.price - first_seen[KPoly].p) >= LEAGUE_CFG.CBB.pregame_big_move
  /\ (KPoly \o "|SCOUT_OPEN") \notin tick.fired
  /\ (KPoly \o "|SCOUT_OPEN") \notin DOMAIN cooldowns

\* an opening-scout alert at the last second of the window, a call after the
\* window, a call that returns a downward move
ReachOpenEdge ==
  /\ (KPoly \o "|SCOUT_OPEN") \in tick.fired
  /\ SinceFirstSeen(first_seen, KPoly, tick.t) = LEAGUE_CFG.CBB.opening_scout_minutes * 60

ReachOpenCallLate ==
  /\ call.fn = "opening_scout_signal"
  /\ call.key \in DOMAIN first_seen
  /\ SinceFirstSeen(first_seen, call.key, call.t) > LEAGUE_CFG.CBB.opening_scout_minutes * 60
  /\ Abs(call.price_now - first_seen[call.key].p) >= LEAGUE_CFG.CBB.pregame_big_move
  /\ call.ret = None

ReachOpenCallDown ==
  call.fn = "opening_scout_signal" /\ call.ret # None /\ call.ret[1] < 0

(***************************************************************************)
(* One open position under evaluated ticks that never stop                 *)
(***************************************************************************)
ExpEntry == 500

\* prices of the ticks: below the stop, around entry, between half the first
\* target and the first target, between the targets, at the second target
ExpPrices ==
  {ExpEntry - 30, ExpEntry - 10, ExpEntry, ExpEntry + 10, ExpEntry + 20, ExpEntry + 25,
   ExpEntry + 40, ExpEntry + 50, ExpEntry + 60}

\* exit_signal reads the clock only to compare the age of the position with
\* the time stop: ages of two cycles past the time stop and more are followed
\* as one age
ExpAgeCap == TIME_STOP_MIN * 60 + 2 * SCAN_SEC

\* the state after an entry alert at ExpEntry
InitExp ==
  /\ now = StartTs
  /\ enabled \in {d \in Deployments : d.ENABLE_POLY_SPORTS}
  /\ pc = "exp"
  /\ history = EmptyMap
  /\ cooldowns = EmptyMap
  /\ positions = [k \in {KPoly} |-> [entry |-> ExpEntry, opened |-> StartTs, peak |-> ExpEntry]]
  /\ first_seen = EmptyMap
  /\ alerts_log = << >>
  /\ kalshi_last_scan_ts = 0
  /\ kalshi_snapshot = EmptyMap
  /\ last_sent = EmptyMap
  /\ tick = NoTick
  /\ alert_ts = EmptyMap
  /\ call = NoCall
  /\ pushed = EmptyMap
  /\ feed = << >>
  /\ WS_STATE = EmptyMap
  /\ WS_LAST_TS = None
  /\ visited = {}
  /\ ws_iter = None
  /\ written = {}
  /\ files = EmptyMap
  /\ saves = {}
  /\ last_recap_day = None
  /\ recaps = << >>
  /\ kscan = None

\* the sleep of a cycle, then the exit block of the key's next evaluated tick
ExpTick ==
  /\ pc = "exp"
  /\ KPoly \in DOMAIN positions
  /\ LET t == IF now - StartTs >= ExpAgeCap THEN now ELSE now + SCAN_SEC IN
     \E mid \in ExpPrices :
       LET pos4 == pos_update_peak(positions, KPoly, mid)
           sig == exit_signal(pos4, KPoly, mid, t)
       IN  /\ now' = t
           /\ positions' = IF sig # None /\ sig[1] \in POLY_CLOSING
                           THEN pos_close(pos4, KPoly) ELSE pos4
           /\ tick' = [NoTick EXCEPT !.t = t, !.src = "POLY", !.key = KPoly,
                                     !.observed = TRUE, !.price = mid,
                                     !.pre = Pre(positions, KPoly),
                                     !.evaluated = TRUE, !.exitChecked = TRUE,
                                     !.action = IF sig = None THEN "none" ELSE sig[1]]
  /\ UNCHANGED <<enabled, files, saves, last_recap_day, recaps, kscan, pc, history,
                 cooldowns, first_seen, alerts_log, kalshi_last_scan_ts, kalshi_snapshot,
                 last_sent, alert_ts, call, pushed, feed, WS_STATE, WS_LAST_TS, ws_iter,
                 written, visited>>

NextExp == ExpTick

\* the key keeps receiving evaluated ticks
SpecExp == InitExp /\ [][NextExp]_vars /\ WF_vars(ExpTick)

\* C29: position expiry. Every OPEN position eventually returns to NONE: for
\* a key that keeps receiving evaluated ticks while time advances, an exit of
\* a closing class (TP2, SL, TRAIL or TIME) eventually fires whatever the
\* price path.
C29_PositionExpiry == (KPoly \in DOMAIN positions) ~> (KPoly \notin DOMAIN positions)

\* what the code guarantees: past the time stop an open position has had its
\* latest tick at 1.5c or more over entry (where TIME does not apply)
C29_AsCoded ==
  (KPoly \in DOMAIN positions /\ tick.evaluated
     /\ tick.t - positions[KPoly].opened >= TIME_STOP_MIN * 60)
    => 2 * cents_diff(tick.price, positions[KPoly].entry) >= TP1_CENTS * Units

\* a position closed by the time stop, one closed by the trailing stop, and
\* one still open two cycles past the time stop
ReachExpTime == tick.action = "TIME" /\ KPoly \notin DOMAIN positions

ReachExpTrail == tick.action = "TRAIL" /\ KPoly \notin DOMAIN positions

ReachExpStuck ==
  /\ KPoly \in DOMAIN positions
  /\ now - positions[KPoly].opened >= ExpAgeCap
  /\ tick.action = "none"

(***************************************************************************)
(* save_state step by step, with failures, process kills and restarts      *)
(***************************************************************************)
\* cycles of SCAN_SEC the exploration follows
MaxSnapCycles == 2

\* failures and kills injected in one run
MaxSnapFaults == 2

STATE_PATH == "state.json"

\* variant: the snapshot is written straight into the state file
tmp_path_same(path) == path

tmp_path(path) == path \o ".tmp"

\* the keys of STATE the model carries, in the order json.dump writes them
StateFields ==
  << "history", "cooldowns", "positions", "first_seen", "alerts_log",
     "last_recap_day", "kalshi_last_scan_ts", "kalshi_snapshot" >>

\* STATE as the cycle has left it
StateNow ==
  [history |-> history, cooldowns |-> cooldowns, positions |-> positions,
   first_seen |-> first_seen, alerts_log |-> alerts_log,
   last_recap_day |-> last_recap_day, kalshi_last_scan_ts |-> kalshi_last_scan_ts,
   kalshi_snapshot |-> kalshi_snapshot]

\* the dictionary of the return statements of load_state that build a fresh state
StateEmpty ==
  [history |-> EmptyMap, cooldowns |-> EmptyMap, positions |-> EmptyMap,
   first_seen |-> EmptyMap, alerts_log |-> << >>,
   last_recap_day |-> None, kalshi_last_scan_ts |-> 0,
   kalshi_snapshot |-> EmptyMap]

\* json.dump: the text of a state, one chunk per key
json_dump(state) ==
  [i \in 1..Len(StateFields) |-> [k |-> StateFields[i], v |-> state[StateFields[i]]]]

\* json.load: the state a text holds (None: the text does not parse, it
\* stops before its closing brace)
json_load(text) ==
  IF /\ Len(text) = Len(StateFields)
     /\ \A i \in 1..Len(text) : text[i].k = StateFields[i]
  THEN << [f \in {StateFields[i] : i \in 1..Len(StateFields)} |->
            text[CHOOSE i \in 1..Len(StateFields) : StateFields[i] = f].v] >>
  ELSE None

\* load_state on the file system: no file or a text that does not parse
\* gives the fresh state
load_state_from(fs) ==
  IF STATE_PATH \notin DOMAIN fs
  THEN StateEmpty
  ELSE IF json_load(fs[STATE_PATH]) = None THEN StateEmpty
       ELSE json_load(fs[STATE_PATH])[1]

\* open(path, "w"): the file exists and is empty
fs_open_w(fs, path) == [q \in DOMAIN fs \cup {path} |-> IF q = path THEN << >> ELSE fs[q]]

\* write: the text grows by a chunk
fs_write(fs, path, chunk) == [fs EXCEPT ![path] = @ \o << chunk >>]

\* os.replace: dst takes the text of src in one step, src is gone
os_replace(fs, src, dst) ==
  [q \in (DOMAIN fs \ {src}) \cup {dst} |-> IF q = dst THEN fs[src] ELSE fs[q]]

\* the positions of save_state: called by the loop (1099) or by the top-level
\* handler (1105), whose except clause swallows its failure
SaveSteps == {"save", "dump", "replace"}

HandlerSteps == {"hsave", "hdump", "hreplace"}

\* where the loop goes when save_state raises at position p
after_raise(p) == IF p \in HandlerSteps THEN "hsleep" ELSE "hsave"

\* the next position of a save_state that goes on
Step(p) ==
  CASE p = "save" -> "dump"
    [] p = "dump" -> "replace"
    [] p = "replace" -> "sleep"
    [] p = "hsave" -> "hdump"
    [] p = "hdump" -> "hreplace"
    [] p = "hreplace" -> "hsleep"

SnapQuotes == {<< 50000 >>, << 52000 >>}

InitSnap ==
  /\ now = StartTs
  /\ enabled = [ENABLE_POLY_SPORTS |-> FALSE, ENABLE_KALSHI |-> TRUE]
  /\ pc = "cycle"
  /\ history = EmptyMap
  /\ cooldowns = EmptyMap
  /\ positions = EmptyMap
  /\ first_seen = EmptyMap
  /\ alerts_log = << >>
  /\ kalshi_last_scan_ts = 0
  /\ kalshi_snapshot = EmptyMap
  /\ last_sent = EmptyMap
  /\ tick = NoTick
  /\ alert_ts = EmptyMap
  /\ call = NoFailure
  /\ pushed = EmptyMap
  /\ feed = << >>
  /\ WS_STATE = EmptyMap
  /\ WS_LAST_TS = None
  /\ visited = {}
  /\ ws_iter = None
  /\ written = {}
  /\ files = EmptyMap
  /\ saves = {}
  /\ last_recap_day = None
  /\ recaps = << >>
  /\ kscan = None

\* the body of one cycle: the Kalshi scan of one market
SnapCycle ==
  /\ pc = "cycle"
  /\ now < StartTs + MaxSnapCycles * SCAN_SEC
  /\ pc' = "save"
  /\ kalshi_last_scan_ts' = now
  /\ \E yes_price \in SnapQuotes :
       KalshiMarket("Senate race", "SEN-1", yes_price, KALSHI_MIN_VOLUME)
  /\ UNCHANGED <<now, enabled, first_seen, last_sent, call, feed, WS_STATE, WS_LAST_TS,
                 ws_iter, written, visited, files, saves, last_recap_day, recaps, kscan>>

\* with open(tmp, "w") and, in the same statement, the text json.dump is
\* about to write; or open raises
SaveOpen ==
  /\ pc \in {"save", "hsave"}
  /\ \/ /\ files' = fs_open_w(files, tmp_path(STATE_PATH))
        /\ saves' = saves \cup {json_dump(StateNow)}
        /\ pc' = Step(pc)
        /\ UNCHANGED call
     \/ /\ call.n < MaxSnapFaults
        /\ call' = Raised("open")
        /\ pc' = after_raise(pc)
        /\ UNCHANGED <<files, saves>>
  /\ UNCHANGED <<now, enabled, history, cooldowns, positions, first_seen, alerts_log,
                 kalshi_last_scan_ts, kalshi_snapshot, last_sent, tick, alert_ts, pushed,
                 feed, WS_STATE, WS_LAST_TS, ws_iter, written, visited, last_recap_day,
                 recaps, kscan>>

\* json.dump(state, f): the next chunk, the close at the end of the text, or
\* a failure (the with statement closes the file on what has been written)
SaveDump ==
  /\ pc \in {"dump", "hdump"}
  /\ LET tmp == tmp_path(STATE_PATH)
         text == json_dump(StateNow)
         n == Len(files[tmp])
     IN  \/ /\ n < Len(text)
            /\ files' = fs_write(files, tmp, text[n + 1])
            /\ pc' = pc
            /\ UNCHANGED call
         \/ /\ n = Len(text)
            /\ pc' = Step(pc)
            /\ UNCHANGED <<files, call>>
         \/ /\ n < Len(text)
            /\ call.n < MaxSnapFaults
            /\ call' = Raised("json.dump")
            /\ pc' = after_raise(pc)
            /\ UNCHANGED files
  /\ UNCHANGED <<now, enabled, history, cooldowns, positions, first_seen, alerts_log,
                 kalshi_last_scan_ts, kalshi_snapshot, last_sent, tick, alert_ts, pushed,
                 feed, WS_STATE, WS_LAST_TS, ws_iter, written, visited, saves,
                 last_recap_day, recaps, kscan>>

\* os.replace(tmp, STATE_PATH), or its failure
SaveReplace ==
  /\ pc \in {"replace", "hreplace"}
  /\ \/ /\ files' = os_replace(files, tmp_path(STATE_PATH), STATE_PATH)
        /\ pc' = Step(pc)
        /\ UNCHANGED call
     \/ /\ call.n < MaxSnapFaults
        /\ call' = Raised("os.replace")
        /\ pc' = after_raise(pc)
        /\ UNCHANGED files
  /\ UNCHANGED <<now, enabled, history, cooldowns, positions, first_seen, alerts_log,
                 kalshi_last_scan_ts, kalshi_snapshot, last_sent, tick, alert_ts, pushed,
                 feed, WS_STATE, WS_LAST_TS, ws_iter, written, visited, saves,
                 last_recap_day, recaps, kscan>>

\* time.sleep(SCAN_SEC) of the loop, time.sleep(10) of the handler
SnapSleep ==
  /\ pc \in {"sleep", "hsleep"}
  /\ pc' = "cycle"
  /\ now' = now + (IF pc = "sleep" THEN SCAN_SEC ELSE RECOVER_SLEEP)
  /\ UNCHANGED <<enabled, history, cooldowns, positions, first_seen, alerts_log,
                 kalshi_last_scan_ts, kalshi_snapshot, last_sent, tick, alert_ts, call,
                 pushed, feed, WS_STATE, WS_LAST_TS, ws_iter, written, visited, files,
                 saves, last_recap_day, recaps, kscan>>

\* the process is killed, at any position; a kill while the temporary file
\* is open loses what the process had not yet handed to the system
SnapKill ==
  /\ pc # "dead"
  /\ call.n < MaxSnapFaults
  /\ call' = Raised("kill")
  /\ pc' = "dead"
  /\ IF pc \in {"dump", "hdump"}
     THEN \E n \in 0..Len(files[tmp_path(STATE_PATH)]) :
            files' = [files EXCEPT ![tmp_path(STATE_PATH)] = SubSeq(@, 1, n)]
     ELSE UNCHANGED files
  /\ UNCHANGED <<now, enabled, history, cooldowns, positions, first_seen, alerts_log,
                 kalshi_last_scan_ts, kalshi_snapshot, last_sent, tick, alert_ts, pushed,
                 feed, WS_STATE, WS_LAST_TS, ws_iter, written, visited, saves,
                 last_recap_day, recaps, kscan>>

\* the process starts again: STATE = load_state()
SnapRestart ==
  /\ pc = "dead"
  /\ now < StartTs + MaxSnapCycles * SCAN_SEC
  /\ pc' = "cycle"
  /\ now' = now + SCAN_SEC
  /\ LET st == load_state_from(files)
     IN  /\ history' = st.history
         /\ cooldowns' = st.cooldowns
         /\ positions' = st.positions
         /\ first_seen' = st.first_seen
         /\ alerts_log' = st.alerts_log
         /\ last_recap_day' = st.last_recap_day
         /\ kalshi_last_scan_ts' = st.kalshi_last_scan_ts
         /\ kalshi_snapshot' = st.kalshi_snapshot
  /\ UNCHANGED <<enabled, last_sent, tick, alert_ts, call, pushed, feed, WS_STATE,
                 WS_LAST_TS, ws_iter, written, visited, files, saves, recaps, kscan>>

NextSnap == SnapCycle \/ SaveOpen \/ SaveDump \/ SaveReplace \/ SnapSleep \/ SnapKill
              \/ SnapRestart

SpecSnap == InitSnap /\ [][NextSnap]_vars

\* C34: snapshot atomicity. At every point, a failure or a process kill at
\* any step of save_state included, the state file is either absent or a
\* complete snapshot written by an earlier or the current save, never a
\* partial one.
C34_SnapshotAtomic ==
  STATE_PATH \in DOMAIN files =>
    /\ files[STATE_PATH] \in saves
    /\ json_load(files[STATE_PATH]) # None

\* C34 witness: the process was killed in the middle of json.dump; the
\* temporary file holds part of a text and the state file the whole text of
\* the save before
C34_Witness ==
  /\ pc = "dead"
  /\ STATE_PATH \in DOMAIN files
  /\ tmp_path(STATE_PATH) \in DOMAIN files
  /\ Len(files[tmp_path(STATE_PATH)]) \in 1..(Len(StateFields) - 1)
  /\ files[STATE_PATH] # json_dump(StateNow)
  /\ json_load(files[STATE_PATH]) # None

\* json.dump failed in the loop and again in the handler: the state file is
\* the text of an earlier save
ReachSnapTwoFailures ==
  /\ pc = "hsleep"
  /\ call.n = 2
  /\ call.key = "json.dump"
  /\ STATE_PATH \in DOMAIN files
  /\ files[STATE_PATH] # json_dump(StateNow)

\* a restart that read a snapshot with a position in it
ReachSnapRestored ==
  /\ pc = "cycle"
  /\ call.key = "kill"
  /\ positions # EmptyMap
  /\ STATE_PATH \in DOMAIN files
  /\ json_load(files[STATE_PATH])[1].positions = positions

(***************************************************************************)
(* Daily recap: the loop around 23:59 local time, over two days            *)
(***************************************************************************)
RECAP_HOUR_LOCAL == 23

RECAP_MIN_LOCAL == 59

DAY_SEC == 24 * 3600

\* cycles of SCAN_SEC the exploration follows (a day is 144 of them)
MaxRecapCycles == 146

\* cycles that end in the top-level handler, in one run
MaxRecapFaults == 3

\* alerts logged during the run
MaxRecapAlerts == 1

\* time.localtime() (the deployment runs with TZ=UTC): the calendar day, as
\* the number of the day, and the hour and minute
local_day_str(t) == t \div DAY_SEC

local_hm(t) == << (t % DAY_SEC) \div 3600, (t % 3600) \div 60 >>

\* variant: the recap is due during the whole recap minute
recap_due_minute(last, day, hm) == hm = << RECAP_HOUR_LOCAL, RECAP_MIN_LOCAL >>

\* the two early returns of run_daily_recap_if_time
recap_due(last, day, hm) ==
  /\ last # << day >>
  /\ hm = << RECAP_HOUR_LOCAL, RECAP_MIN_LOCAL >>

\* the alerts the recap counts
recap_alerts(log, t) ==
  LET since_ts == t - DAY_SEC
  IN  SelectSeq(log, LAMBDA a : a.ts >= since_ts /\ a.kind \in {"ENTRY", "SCOUT"})

\* the first midnight of the exploration
RecapDay0 == 20000 * DAY_SEC

\* the process starts shortly before, inside, or in the last second of the
\* recap minute
RecapStarts == {RecapDay0 - 65, RecapDay0 - 30, RecapDay0 - 1}

\* the log the process starts with: alerts of the three kinds, older than 24
\* hours at the first recap minute, leaving the 24 hours during it, and recent
RecapLog ==
  LET e(ts, kind) == [ts |-> ts, source |-> "POLY", league |-> "CBB", ident |-> "cbb-g1",
                      outcome |-> "Duke", price |-> 500, conf |-> 5000, kind |-> kind,
                      reason |-> "displacement"]
  IN  << e(RecapDay0 - DAY_SEC - 4000, "ENTRY"), e(RecapDay0 - DAY_SEC - 40, "SCOUT"),
         e(RecapDay0 - DAY_SEC - 20, "ENTRY"), e(RecapDay0 - 7200, "UPDATE"),
         e(RecapDay0 - 3600, "ENTRY"), e(RecapDay0 - 3000, "SCOUT") >>

\* the time between the two readings of the clock: the second reading gives
\* another minute only when the first falls in the last second of a minute
ClockGaps(t) == IF t % 60 = 59 THEN {0, 1} ELSE {0}

\* the cycles in which the venue gives an alert: those after the first
\* midnight
RecapAlertCycles == 2

InitRecap ==
  /\ now \in RecapStarts
  /\ enabled = [ENABLE_POLY_SPORTS |-> TRUE, ENABLE_KALSHI |-> FALSE]
  /\ pc = "recap"
  /\ history = EmptyMap
  /\ cooldowns = EmptyMap
  /\ positions = EmptyMap
  /\ first_seen = EmptyMap
  /\ alerts_log = RecapLog
  /\ kalshi_last_scan_ts = 0
  /\ kalshi_snapshot = EmptyMap
  /\ last_sent = EmptyMap
  /\ tick = NoTick
  /\ alert_ts = EmptyMap
  /\ call = NoFailure
  /\ pushed = EmptyMap
  /\ feed = << >>
  /\ WS_STATE = EmptyMap
  /\ WS_LAST_TS = None
  /\ visited = {}
  /\ ws_iter = None
  /\ written = {}
  /\ files = EmptyMap
  /\ saves = {}
  /\ last_recap_day \in {None, << local_day_str(now) - 1 >>}
  /\ recaps = << >>
  /\ kscan = None

\* run_daily_recap_if_time: the day is read first, the hour and minute by a
\* second reading of the clock, which may have moved on by then
RunDailyRecapIfTime ==
  /\ pc = "recap"
  /\ pc' = "scan"
  /\ \E d \in ClockGaps(now) :
       LET day == local_day_str(now)
           hm == local_hm(now + d)
       IN  /\ now' = now + d
           /\ IF recap_due(last_recap_day, day, hm)
              THEN /\ recaps' = recaps \o << [t |-> now + d, day |-> day,
                                              n |-> Len(recap_alerts(alerts_log, now + d))] >>
                   /\ last_recap_day' = << day >>
              ELSE UNCHANGED <<recaps, last_recap_day>>
  /\ UNCHANGED <<enabled, history, cooldowns, positions, first_seen, alerts_log,
                 kalshi_last_scan_ts, kalshi_snapshot, last_sent, tick, alert_ts, call,
                 pushed, feed, WS_STATE, WS_LAST_TS, ws_iter, written, visited, files,
                 saves, kscan>>

\* the rest of a cycle that ends normally: it may log an alert; save, sleep
RecapCycle ==
  /\ pc = "scan"
  /\ now + SCAN_SEC <= RecapDay0 + MaxRecapCycles * SCAN_SEC
  /\ pc' = "recap"
  /\ now' = now + SCAN_SEC
  /\ \/ UNCHANGED alerts_log
     \/ /\ Len(alerts_log) < Len(RecapLog) + MaxRecapAlerts
        /\ now >= RecapDay0
        /\ now < RecapDay0 + RecapAlertCycles * SCAN_SEC
        /\ \E kind \in {"ENTRY", "UPDATE"} :
             alerts_log' = log_alert(alerts_log, now, "POLY", "CBB", "cbb-g1", "Duke", 500,
                                     5000, kind, "displacement")
  /\ UNCHANGED <<enabled, history, cooldowns, positions, first_seen, kalshi_last_scan_ts,
                 kalshi_snapshot, last_sent, tick, alert_ts, call, pushed, feed, WS_STATE,
                 WS_LAST_TS, ws_iter, written, visited, files, saves, last_recap_day,
                 recaps, kscan>>

\* a cycle that raises after the recap: the top-level handler sleeps 10 s
RecapRaise ==
  /\ pc = "scan"
  /\ call.n < MaxRecapFaults
  /\ call' = [call EXCEPT !.fn = "raise", !.key = "scan", !.n = @ + 1]
  /\ pc' = "recap"
  /\ now' = now + RECOVER_SLEEP
  /\ UNCHANGED <<enabled, history, cooldowns, positions, first_seen, alerts_log,
                 kalshi_last_scan_ts, kalshi_snapshot, last_sent, tick, alert_ts, pushed,
                 feed, WS_STATE, WS_LAST_TS, ws_iter, written, visited, files, saves,
                 last_recap_day, recaps, kscan>>

NextRecap == RunDailyRecapIfTime \/ RecapCycle \/ RecapRaise

SpecRecap == InitRecap /\ [][NextRecap]_vars

\* no two recaps were sent on the same local calendar day
C35_OncePerDay ==
  \A i, j \in 1..Len(recaps) :
    i < j => local_day_str(recaps[i].t) # local_day_str(recaps[j].t)

\* a call that sends does so in the recap minute of a day other than
\* last_recap_day, records that day, and counts the ENTRY and SCOUT alerts of
\* the 24 hours before it; a call that does not send leaves last_recap_day
C35_Call ==
  (pc = "recap" /\ pc' = "scan") =>
    IF recaps' # recaps
    THEN LET r == recaps'[Len(recaps')] IN
         /\ recaps' = recaps \o << r >>
         /\ r.t = now'
         /\ local_hm(r.t) = << RECAP_HOUR_LOCAL, RECAP_MIN_LOCAL >>
         /\ r.day = local_day_str(r.t)
         /\ last_recap_day # << r.day >>
         /\ last_recap_day' = << r.day >>
         /\ r.n = Cardinality({ i \in 1..Len(alerts_log) :
                                 /\ r.t - alerts_log[i].ts <= DAY_SEC
                                 /\ alerts_log[i].kind # "UPDATE" })
    ELSE last_recap_day' = last_recap_day

\* C35: the daily recap is sent at most once per local calendar day.
\* run_daily_recap_if_time sends only when the local hour and minute equal
\* the configured recap time and last_recap_day differs from today, sets
\* last_recap_day to today when it sends, and counts only the ENTRY and SCOUT
\* alerts of the last 24 hours.
C35_DailyRecap == [](C35_OncePerDay) /\ [][C35_Call]_vars

\* C35 witness: a recap was sent, and a later call in the same recap minute
\* of the same day (after a cycle that ended in the handler) sent nothing
C35_Witness ==
  /\ pc = "scan"
  /\ Len(recaps) = 1
  /\ now > recaps[1].t
  /\ local_day_str(now) = recaps[1].day
  /\ local_hm(now) = << RECAP_HOUR_LOCAL, RECAP_MIN_LOCAL >>

\* recaps on two consecutive days, the second counting an alert of the run
ReachRecapTwoDays ==
  /\ Len(recaps) = 2
  /\ recaps[2].day = recaps[1].day + 1
  /\ recaps[2].n = 1

\* the first recap left out the alerts older than 24 hours and the update
ReachRecapCount ==
  /\ Len(recaps) >= 1
  /\ recaps[1].n = 2

\* the clock passed midnight between the two readings: nothing is sent
ReachRecapMidnight ==
  /\ pc = "scan"
  /\ now = RecapDay0
  /\ recaps = << >>

(***************************************************************************)
(* The Kalshi scan market by market: throttle, market budget, failures     *)
(***************************************************************************)
\* cycles of SCAN_SEC the exploration follows
MaxThrCycles == 2

\* failures injected in one run
MaxThrFaults == 2

\* the series of the venue and the open markets of each, in listing order
ThrSeries == << << "SEN-1", "SEN-2" >>, << "GOV-1" >> >>

ThrQuotes == {<< 50000 >>}

ThrVolumes == {1000, 6000}

\* observation of the scans: t is the start of the latest scan, prev the
\* start of the one before it, failed says that the latest scan raised,
\* prevFailed the same of the one before it, n counts the failures
NoScan ==
  [fn |-> "none", t |-> 0, prev |-> None, failed |-> FALSE, prevFailed |-> FALSE, n |-> 0]

\* variant: the budget test lets one more market through
budget_spent_late(markets_seen) == markets_seen > KALSHI_MAX_MARKETS

\* the test at the head of the market loop
budget_spent(markets_seen) == markets_seen >= KALSHI_MAX_MARKETS

\* the head of the series loop for series i
AtSeries(i, seen) == << [series |-> i, market |-> 0, markets_seen |-> seen] >>

\* the loop position after market j of series i
AfterMarket(i, j, seen) ==
  IF j < Len(ThrSeries[i])
  THEN << [series |-> i, market |-> j + 1, markets_seen |-> seen] >>
  ELSE AtSeries(i + 1, seen)

InitThr ==
  /\ now = StartTs
  /\ enabled = [ENABLE_POLY_SPORTS |-> FALSE, ENABLE_KALSHI |-> TRUE]
  /\ pc = "gate"
  /\ history = EmptyMap
  /\ cooldowns = EmptyMap
  /\ positions = EmptyMap
  /\ first_seen = EmptyMap
  /\ alerts_log = << >>
  /\ kalshi_last_scan_ts = 0
  /\ kalshi_snapshot = EmptyMap
  /\ last_sent = EmptyMap
  /\ tick = NoTick
  /\ alert_ts = EmptyMap
  /\ call = NoScan
  /\ pushed = EmptyMap
  /\ feed = << >>
  /\ WS_STATE = EmptyMap
  /\ WS_LAST_TS = None
  /\ visited = {}
  /\ ws_iter = None
  /\ written = {}
  /\ files = EmptyMap
  /\ saves = {}
  /\ last_recap_day = None
  /\ recaps = << >>
  /\ kscan = None

\* the throttle test; when it passes, kalshi_last_scan_ts is set and the
\* series are fetched, which may raise into the except clause of the scan
ThrGate ==
  /\ pc = "gate"
  /\ IF enabled.ENABLE_KALSHI /\ (now - kalshi_last_scan_ts) >= KALSHI_SCAN_SEC
     THEN /\ kalshi_last_scan_ts' = now
          /\ \/ /\ pc' = "scan"
                /\ kscan' = AtSeries(1, 0)
                /\ call' = [fn |-> "kalshi_scan", t |-> now,
                            prev |-> IF call.fn = "none" THEN None ELSE << call.t >>,
                            failed |-> FALSE, prevFailed |-> call.failed, n |-> call.n]
             \/ /\ call.n < MaxThrFaults
                /\ pc' = "save"
                /\ kscan' = None
                /\ call' = [fn |-> "kalshi_scan", t |-> now,
                            prev |-> IF call.fn = "none" THEN None ELSE << call.t >>,
                            failed |-> TRUE, prevFailed |-> call.failed, n |-> call.n + 1]
     ELSE /\ pc' = "save"
          /\ UNCHANGED <<kalshi_last_scan_ts, kscan, call>>
  /\ UNCHANGED <<now, enabled, history, cooldowns, positions, first_seen, alerts_log,
                 kalshi_snapshot, last_sent, tick, alert_ts, pushed, feed, WS_STATE,
                 WS_LAST_TS, ws_iter, written, visited, files, saves, last_recap_day,
                 recaps>>

\* the head of the series loop: the end of the scan when the series are
\* through, otherwise the fetch of the open markets of the series, which may
\* raise
ThrSeriesHead ==
  /\ pc = "scan"
  /\ kscan[1].market = 0
  /\ LET i == kscan[1].series
         seen == kscan[1].markets_seen
     IN  IF i > Len(ThrSeries)
         THEN /\ pc' = "save"
              /\ kscan' = None
              /\ UNCHANGED call
         ELSE \/ /\ pc' = "scan"
                 /\ kscan' = << [series |-> i, market |-> 1, markets_seen |-> seen] >>
                 /\ UNCHANGED call
              \/ /\ call.n < MaxThrFaults
                 /\ pc' = "save"
                 /\ kscan' = None
                 /\ call' = [call EXCEPT !.failed = TRUE, !.n = @ + 1]
  /\ UNCHANGED <<now, enabled, history, cooldowns, positions, first_seen, alerts_log,
                 kalshi_last_scan_ts, kalshi_snapshot, last_sent, tick, alert_ts, pushed,
                 feed, WS_STATE, WS_LAST_TS, ws_iter, written, visited, files, saves,
                 last_recap_day, recaps>>

\* one iteration of the market loop: the break when the budget is spent; a
\* volume that float() rejects, which ends the scan in its except clause; or
\* the body of the market, which counts the market once its filters passed
ThrMarket ==
  /\ pc = "scan"
  /\ kscan[1].market > 0
  /\ LET i == kscan[1].series
         j == kscan[1].market
         seen == kscan[1].markets_seen
     IN  IF budget_spent(seen)
         THEN /\ pc' = "scan"
              /\ kscan' = AtSeries(i + 1, seen)
              /\ UNCHANGED <<history, cooldowns, positions, alerts_log, tick, alert_ts,
                             pushed, kalshi_snapshot, call>>
         ELSE \/ /\ call.n < MaxThrFaults
                 /\ pc' = "save"
                 /\ kscan' = None
                 /\ call' = [call EXCEPT !.failed = TRUE, !.n = @ + 1]
                 /\ UNCHANGED <<history, cooldowns, positions, alerts_log, tick, alert_ts,
                                pushed, kalshi_snapshot>>
              \/ \E yes_price \in ThrQuotes, volume \in ThrVolumes :
                   /\ KalshiMarket("Race", ThrSeries[i][j], yes_price, volume)
                   /\ pc' = "scan"
                   /\ kscan' = AfterMarket(i, j, IF volume < KALSHI_MIN_VOLUME
                                                  THEN seen ELSE seen + 1)
                   /\ UNCHANGED call
  /\ UNCHANGED <<now, enabled, first_seen, kalshi_last_scan_ts, last_sent, feed, WS_STATE,
                 WS_LAST_TS, ws_iter, written, visited, files, saves, last_recap_day,
                 recaps>>

\* save_state and the sleep of the loop; a save that raises goes to the
\* top-level handler and its sleep
ThrSave ==
  /\ pc = "save"
  /\ pc' = "gate"
  /\ \/ /\ now + SCAN_SEC <= StartTs + MaxThrCycles * SCAN_SEC
        /\ now' = now + SCAN_SEC
        /\ UNCHANGED call
     \/ /\ call.n < MaxThrFaults
        /\ now' = now + RECOVER_SLEEP
        /\ call' = [call EXCEPT !.n = @ + 1]
  /\ UNCHANGED <<enabled, history, cooldowns, positions, first_seen, alerts_log,
                 kalshi_last_scan_ts, kalshi_snapshot, last_sent, tick, alert_ts, pushed,
                 feed, WS_STATE, WS_LAST_TS, ws_iter, written, visited, files, saves,
                 last_recap_day, recaps, kscan>>

NextThr == ThrGate \/ ThrSeriesHead \/ ThrMarket \/ ThrSave

SpecThr == InitThr /\ [][NextThr]_vars

\* the history pushes made at time t
PushesAt(t) ==
  { << k, n >> \in UNION { {k} \X (1..Len(pushed[k])) : k \in DOMAIN pushed } :
      pushed[k][n].t = t }

\* the start of a scan is at least KALSHI_SCAN_SEC after the start of the
\* scan before it
C36_Spaced == call.prev # None => call.t - call.prev[1] >= KALSHI_SCAN_SEC

\* the pushes of the latest scan are at most KALSHI_MAX_MARKETS
C36_Budget == Cardinality(PushesAt(call.t)) <= KALSHI_MAX_MARKETS

\* C36: Kalshi scan throttle. Two consecutive Kalshi scans start at least
\* KALSHI_SCAN_SEC seconds apart, also after a scan that failed, because
\* kalshi_last_scan_ts is set before the scan runs; within one scan at most
\* KALSHI_MAX_MARKETS markets get a history push.
C36_ScanThrottle == C36_Spaced /\ C36_Budget

\* C36 witness: a scan that failed, the throttle test refused 10 s later in
\* the cycle after the handler, and the next scan started, its budget being
\* spent before the last market
C36_Witness ==
  /\ call.prev # None
  /\ call.prevFailed
  /\ call.n >= 2
  /\ pc = "save"
  /\ ~call.failed
  /\ Cardinality(PushesAt(call.t)) = KALSHI_MAX_MARKETS
  /\ tick.key = hist_key("KALSHI", "POLITICS", "SEN-2", "YES")
  /\ tick.t = call.t

\* the throttle test refused a scan after a failed one
ReachThrRefused ==
  /\ pc = "save"
  /\ call.failed
  /\ now > call.t
  /\ now - call.t < KALSHI_SCAN_SEC
  /\ kalshi_last_scan_ts = call.t

\* the first market was filtered out, so the market of the second series
\* took the second place of the budget
ReachThrSecondSeries ==
  /\ pc = "save"
  /\ tick.key = hist_key("KALSHI", "POLITICS", "GOV-1", "YES")
  /\ tick.t = call.t
  /\ tick.pushed
  /\ Cardinality(PushesAt(call.t)) = KALSHI_MAX_MARKETS

====
